---------------------------- MODULE Spec2Model ----------------------------
(***************************************************************************)
(* A model of the Shank 2 container tools:                                 *)
(*   canim_meta.py  the event-metadata container (.canim-meta): load,      *)
(*                  verify-or-fallback, edit commands, re-encode;          *)
(*   canim.py       the animation container (.canim): parse, JSON export,  *)
(*                  rebuild, batch drivers.                                *)
(* Buffers are sequences of bytes (0..255).  The code's offsets are        *)
(* 0-based: the byte at offset p of buffer d is d[p+1].  A 32-bit field    *)
(* whose identity is all that matters (a hash, a float that is only        *)
(* re-emitted) is kept as its 4 bytes, a "word".                           *)
(***************************************************************************)
EXTENDS Integers, Sequences, FiniteSets, TLC

VARIABLES
    file,      \* event container: the bytes of the .canim-meta file on disk
    meta,      \* event container: the CAnimMeta document in memory
    mpc,       \* event container: "idle" | "start" | "loaded"
    lastop,    \* event container: the last command run and the document before it
    mjson,     \* event container: the JSON document export_json wrote
    bak,       \* event container: the <path>.bak file on disk, if there is one
    nedits,    \* number of edits made so far (commands, or changes to the JSON)
    afile,     \* animation container: the bytes of the .canim file on disk
    ajson,     \* animation container: the exported JSON document
    aout,      \* animation container: the bytes rebuild wrote
    apc,       \* animation container: "idle" | "start" | "exported" |
               \*   "export_failed" | "rebuilt" | "rebuild_failed"
    btool,     \* batch: "idle" | "export" | "rebuild" | "analyze"
    bfolder,   \* batch: the folder, a function from file names to contents
    bdone,     \* batch: the files processed so far, in processing order
    bcount     \* batch: the tallies of the run

metavars  == <<file, meta, mpc, lastop, mjson, bak>>
animvars  == <<afile, ajson, aout, apc>>
batchvars == <<btool, bfolder, bdone, bcount>>
vars == <<file, meta, mpc, lastop, mjson, bak, nedits, afile, ajson, aout, apc,
          btool, bfolder, bdone, bcount>>

-----------------------------------------------------------------------------
(* Bounds of the model *)

\* edit commands explored after a load
MaxEdits == 1

-----------------------------------------------------------------------------
(* Generic helpers *)

Min(a, b) == IF a <= b THEN a ELSE b
Max(a, b) == IF a >= b THEN a ELSE b

\* Python's d[a:b] for 0 <= a: clipped to the buffer
Slice(d, a, b) == SubSeq(d, a + 1, Min(b, Len(d)))

RECURSIVE Pow2(_)
Pow2(n) == IF n <= 0 THEN 1 ELSE 2 * Pow2(n - 1)

RECURSIVE Concat(_)
\* the concatenation of a sequence of sequences
Concat(ss) == IF ss = <<>> THEN <<>> ELSE Head(ss) \o Concat(Tail(ss))

\* the largest value the model's integers hold: a 32-bit field of 2^31 or
\* more reads as this value (every bound the code compares a count with is
\* far below it)
BigInt == 2147483646 + 1

-----------------------------------------------------------------------------
(* struct.unpack_from / struct.pack of the fixed-width integers *)

\* '<H' at offset p (the caller has checked p+2 <= len)
U16(d, p) == d[p + 1] + 256 * d[p + 2]

\* '<I' at offset p (the caller has checked p+4 <= len)
U32(d, p) ==
    IF d[p + 4] >= 128 THEN BigInt
    ELSE d[p + 1] + 256 * d[p + 2] + 65536 * d[p + 3] + 16777216 * d[p + 4]

\* the 4 bytes at offset p, kept as they are
Word(d, p) == SubSeq(d, p + 1, p + 4)

\* struct.pack('<H', v)
P16(v) == << v % 256, (v \div 256) % 256 >>

\* struct.pack('<I', v) for 0 <= v < 2^31
P32(v) == << v % 256, (v \div 256) % 256, (v \div 65536) % 256, (v \div 16777216) % 256 >>

-----------------------------------------------------------------------------
(* 32-bit IEEE-754 floats.  A float is kept as its word <<b0,b1,b2,b3>>    *)
(* (little-endian).  Its value is (-1)^s * (2^23+m) * 2^(e-150) for        *)
(* 1 <= e <= 254, (-1)^s * m * 2^-149 for e = 0.  Arithmetic is done in    *)
(* fixed point, in units of 1/FxUnit, on the values that are exact there.  *)
(***************************************************************************)

FxUnit == 2 * 2

FSign(w) == w[4] \div 128
FExp(w)  == (w[4] % 128) * 2 + (w[3] \div 128)
FMant(w) == (w[3] % 128) * 65536 + w[2] * 256 + w[1]

\* math.isnan, math.isinf
IsNaN(w) == FExp(w) = 255 /\ FMant(w) # 0
IsInf(w) == FExp(w) = 255 /\ FMant(w) = 0

\* |value| * FxUnit, rounded down; values of 2^27 or more read as 2^30 - 1
FxFloorAbs(w) ==
    LET e == FExp(w)
        m == FMant(w)
    IN  IF e = 255 \/ e > 153 THEN 1073741823
        ELSE IF e = 0 THEN 0
        ELSE IF e >= 148 THEN (8388608 + m) * Pow2(e - 148)
        ELSE IF e < 124 THEN 0
        ELSE (8388608 + m) \div Pow2(148 - e)

\* whether |value| * FxUnit is a whole number below 2^24 (exact in fixed point)
FxExact(w) ==
    LET e == FExp(w)
        m == FMant(w)
    IN  IF e = 255 \/ e > 148 THEN FALSE
        ELSE IF e = 0 THEN m = 0
        ELSE IF e = 148 THEN TRUE
        ELSE IF e < 124 THEN FALSE
        ELSE (8388608 + m) % Pow2(148 - e) = 0

\* the value in units of 1/FxUnit, for an exact w
Fx(w) == IF FSign(w) = 1 THEN 0 - FxFloorAbs(w) ELSE FxFloorAbs(w)

\* an integer that orders the non-NaN floats as their values do:
\* 2*floor(|v|*FxUnit), plus 1 when |v|*FxUnit is not whole, signed
FKey(w) ==
    LET e == FExp(w)
        m == FMant(w)
        whole == IF e = 255 \/ e > 153 THEN TRUE
                 ELSE IF e = 0 THEN m = 0
                 ELSE IF e >= 148 THEN TRUE
                 ELSE IF e < 124 THEN FALSE
                 ELSE (8388608 + m) % Pow2(148 - e) = 0
        k == 2 * FxFloorAbs(w) + (IF whole THEN 0 ELSE 1)
    IN  IF FSign(w) = 1 THEN 0 - k ELSE k

\* Python's a < b on floats (False when either is NaN)
FLt(a, b) == ~IsNaN(a) /\ ~IsNaN(b) /\ FKey(a) < FKey(b)

\* a < n, a > n for a whole number n
FLtInt(a, n) == ~IsNaN(a) /\ FKey(a) < 2 * FxUnit * n
FGtInt(a, n) == ~IsNaN(a) /\ FKey(a) > 2 * FxUnit * n

RECURSIVE Normalise(_, _)
\* <<mantissa, exponent>> of the whole number a = mantissa * 2^(exponent-148),
\* with 2^23 <= mantissa < 2^24, for 0 < a < 2^24
Normalise(a, e) == IF a >= 8388608 THEN <<a, e>> ELSE Normalise(2 * a, e - 1)

\* struct.pack('<f', v) of the value v/FxUnit, |v| < 2^24
FPack(v) ==
    IF v = 0 THEN <<0, 0, 0, 0>>
    ELSE LET a  == IF v < 0 THEN 0 - v ELSE v
             ne == Normalise(a, 148)
             m  == ne[1] - 8388608
             e  == ne[2]
             s  == IF v < 0 THEN 1 ELSE 0
         IN  << m % 256, (m \div 256) % 256,
                (m \div 65536) + 128 * (e % 2), (e \div 2) + 128 * s >>

\* the float of a whole number
FInt(n) == FPack(n * FxUnit)

FZero == <<0, 0, 0, 0>>


-----------------------------------------------------------------------------
(* canim_meta.py: the chunk markers *)

MHIT == <<77, 72, 73, 84>>
MACT == <<77, 65, 67, 84>>
MCOL == <<77, 67, 79, 76>>
CHUNK_MAGICS == {MHIT, MACT, MCOL}

-----------------------------------------------------------------------------
(* canim_meta.py: RawChunk *)

RawChunk(magic, data) == [kind |-> "Raw", magic |-> magic, raw |-> data]

RawChunk_to_bytes(c) == c.raw

-----------------------------------------------------------------------------
(* canim_meta.py: Phase (hit phase) *)

RECURSIVE FMinFrom(_, _, _)
\* Python's min(xs), started with m: a later item replaces m when item < m
FMinFrom(xs, i, m) ==
    IF i > Len(xs) THEN m
    ELSE FMinFrom(xs, i + 1, IF FLt(xs[i], m) THEN xs[i] ELSE m)

RECURSIVE FMaxFrom(_, _, _)
\* Python's max(xs), started with m: a later item replaces m when item > m
FMaxFrom(xs, i, m) ==
    IF i > Len(xs) THEN m
    ELSE FMaxFrom(xs, i + 1, IF FLt(m, xs[i]) THEN xs[i] ELSE m)

FMin(xs) == FMinFrom(xs, 2, xs[1])
FMax(xs) == FMaxFrom(xs, 2, xs[1])

\* floats[i] for i in range(start, len, 2), start 0 or 1 (0-based)
EveryOther(floats, start) ==
    [k \in 1..((Len(floats) - start + 1) \div 2) |-> floats[start + 2 * k - 1]]

Phase_get_corners(ph) ==
    << <<ph.minX, ph.minY>>, <<ph.minX, ph.maxY>>,
       <<ph.maxX, ph.maxY>>, <<ph.maxX, ph.minY>> >>

\* get_floats that always gives the four corners
Phase_get_floats_corners(ph) ==
    LET c == Phase_get_corners(ph)
    IN  << c[1][1], c[1][2], c[2][1], c[2][2],
           c[3][1], c[3][2], c[4][1], c[4][2] >>

Phase_get_floats(ph) ==
    IF ph.has_raw THEN ph.raw_floats
    ELSE LET c == Phase_get_corners(ph)
         IN  << c[1][1], c[1][2], c[2][1], c[2][2],
                c[3][1], c[3][2], c[4][1], c[4][2] >>

Phase_phase_byte_size(ph) == 8 + ph.bbox_type * 8

Phase_to_bytes(ph) ==
    ph.phase_time \o P32(ph.bbox_type) \o Concat(Phase_get_floats(ph))

\* Phase.from_bytes: the caller has checked that the phase lies in the buffer
Phase_from_bytes(data, offset) ==
    LET bbox_type  == U32(data, offset + 4)
        num_floats == bbox_type * 2
        floats     == [i \in 1..num_floats |-> Word(data, offset + 8 + (i - 1) * 4)]
        xs         == EveryOther(floats, 0)
        ys         == EveryOther(floats, 1)
    IN  IF bbox_type = 4 /\ Len(floats) = 8
        THEN [phase_time |-> Word(data, offset), bbox_type |-> bbox_type,
              has_raw |-> FALSE, raw_floats |-> <<>>,
              minX |-> floats[1], minY |-> floats[2],
              maxX |-> floats[5], maxY |-> floats[4]]
        ELSE [phase_time |-> Word(data, offset), bbox_type |-> bbox_type,
              has_raw |-> TRUE, raw_floats |-> floats,
              minX |-> IF xs # <<>> THEN FMin(xs) ELSE FZero,
              minY |-> IF ys # <<>> THEN FMin(ys) ELSE FZero,
              maxX |-> IF xs # <<>> THEN FMax(xs) ELSE FZero,
              maxY |-> IF ys # <<>> THEN FMax(ys) ELSE FZero]

-----------------------------------------------------------------------------
(* canim_meta.py: CollisionSegment, CollisionPhase *)

CollisionSegment_BYTE_SIZE == 21

SeparatorZeros == <<0, 0, 0, 0, 0>>

CollisionSegment_to_bytes(s) == s.x1 \o s.y1 \o s.x2 \o s.y2 \o SeparatorZeros

CollisionSegment_from_bytes(data, offset) ==
    [x1 |-> Word(data, offset),     y1 |-> Word(data, offset + 4),
     x2 |-> Word(data, offset + 8), y2 |-> Word(data, offset + 12)]

CollisionPhase_phase_byte_size(ph) == 8 + Len(ph.segments) * CollisionSegment_BYTE_SIZE

CollisionPhase_to_bytes(ph) ==
    ph.phase_time \o P32(Len(ph.segments))
        \o Concat([i \in 1..Len(ph.segments) |-> CollisionSegment_to_bytes(ph.segments[i])])

RECURSIVE ReadSegments_unchecked(_, _, _, _, _)
\* the segment loop without the comparison of the separator with zeros
ReadSegments_unchecked(data, cursor, max_end, left, segs) ==
    IF left = 0 THEN [segments |-> segs, cursor |-> cursor, err |-> "none"]
    ELSE IF cursor + 16 > max_end
    THEN [segments |-> segs, cursor |-> cursor, err |-> "segment overflow"]
    ELSE IF cursor + 16 + 5 > max_end
    THEN [segments |-> segs, cursor |-> cursor + 16, err |-> "separator overflow"]
    ELSE ReadSegments_unchecked(data, cursor + 21, max_end, left - 1,
                                Append(segs, CollisionSegment_from_bytes(data, cursor)))

RECURSIVE ReadSegments(_, _, _, _, _)
\* the segment loop of CollisionPhase.from_bytes: <<segments, cursor, err>>
ReadSegments(data, cursor, max_end, left, segs) ==
    IF left = 0 THEN [segments |-> segs, cursor |-> cursor, err |-> "none"]
    ELSE IF cursor + 16 > max_end
    THEN [segments |-> segs, cursor |-> cursor, err |-> "segment overflow"]
    ELSE IF cursor + 16 + 5 > max_end
    THEN [segments |-> segs, cursor |-> cursor + 16, err |-> "separator overflow"]
    ELSE IF Slice(data, cursor + 16, cursor + 21) # SeparatorZeros
    THEN [segments |-> segs, cursor |-> cursor + 16, err |-> "bad separator"]
    ELSE ReadSegments(data, cursor + 21, max_end, left - 1,
                      Append(segs, CollisionSegment_from_bytes(data, cursor)))

\* CollisionPhase.from_bytes: (phase, cursor, err)
CollisionPhase_from_bytes(data, offset, max_end) ==
    IF offset + 8 > max_end
    THEN [phase |-> <<>>, cursor |-> offset, err |-> "phase header overflow"]
    ELSE LET num_segs == U32(data, offset + 4)
         IN  IF num_segs < 1 \/ num_segs > 200
             THEN [phase |-> <<>>, cursor |-> offset, err |-> "bad num_segments"]
             ELSE LET r == ReadSegments(data, offset + 8, max_end, num_segs, <<>>)
                  IN  IF r.err # "none"
                      THEN [phase |-> <<>>, cursor |-> r.cursor, err |-> r.err]
                      ELSE [phase |-> [phase_time |-> Word(data, offset),
                                       segments |-> r.segments],
                            cursor |-> r.cursor, err |-> "none"]

-----------------------------------------------------------------------------
(* canim_meta.py: MCOLEntry *)

MCOLEntry_byte_size(e) ==
    LET RECURSIVE Sum(_)
        Sum(i) == IF i > Len(e.phases) THEN 0
                  ELSE CollisionPhase_phase_byte_size(e.phases[i]) + Sum(i + 1)
    IN  28 + Sum(1) + 4

MCOLEntry_to_bytes(e) ==
    MCOL \o e.anim_hash \o e.event_hash \o e.start_time \o e.end_time
         \o e.element_id \o P32(Len(e.phases))
         \o Concat([i \in 1..Len(e.phases) |-> CollisionPhase_to_bytes(e.phases[i])])
         \o e.ref_count

RECURSIVE ReadColPhases(_, _, _, _, _)
\* the phase loop of MCOLEntry.from_bytes: stops at the first phase that fails
ReadColPhases(data, cursor, max_end, left, phases) ==
    IF left = 0 THEN [phases |-> phases, cursor |-> cursor, err |-> "none"]
    ELSE LET r == CollisionPhase_from_bytes(data, cursor, max_end)
         IN  IF r.err # "none"
             THEN [phases |-> phases, cursor |-> r.cursor, err |-> r.err]
             ELSE ReadColPhases(data, r.cursor, max_end, left - 1,
                                Append(phases, r.phase))

\* MCOLEntry.from_bytes: res is "raised" (struct.error: the fixed header runs
\* past the buffer), "none" (None returned: a phase failed) or "entry"
MCOLEntry_from_bytes(data, offset, size) ==
    IF offset + 28 > Len(data) THEN [res |-> "raised", err |-> "struct.error"]
    ELSE LET max_end == offset + size
             r == ReadColPhases(data, offset + 28, max_end, U32(data, offset + 24), <<>>)
         IN  IF r.err # "none" THEN [res |-> "none", err |-> r.err]
             ELSE [res |-> "entry", err |-> "none",
                   entry |-> [kind       |-> "MCOL",
                              anim_hash  |-> Word(data, offset + 4),
                              event_hash |-> Word(data, offset + 8),
                              start_time |-> Word(data, offset + 12),
                              end_time   |-> Word(data, offset + 16),
                              element_id |-> Word(data, offset + 20),
                              phases     |-> r.phases,
                              ref_count  |-> IF r.cursor + 4 <= max_end
                                             THEN Word(data, r.cursor)
                                             ELSE P32(0)]]

-----------------------------------------------------------------------------
(* canim_meta.py: MHITEntry *)

MHITEntry_byte_size(e) ==
    LET RECURSIVE Sum(_)
        Sum(i) == IF i > Len(e.phases) THEN 0
                  ELSE Phase_phase_byte_size(e.phases[i]) + Sum(i + 1)
    IN  28 + Sum(1) + 4 + Len(e.ref_hashes) * 4 + Len(e.footer_extra)

MHITEntry_to_bytes(e) ==
    MHIT \o e.anim_hash \o e.event_hash \o e.start_time \o e.end_time
         \o e.element_id \o P32(Len(e.phases))
         \o Concat([i \in 1..Len(e.phases) |-> Phase_to_bytes(e.phases[i])])
         \o P32(Len(e.ref_hashes)) \o Concat(e.ref_hashes) \o e.footer_extra

RECURSIVE ReadHitPhases(_, _, _, _, _)
\* the phase loop of MHITEntry.from_bytes: <<phases, phase_cursor>>; it breaks
\* when the next phase does not fit in the chunk
ReadHitPhases(data, phase_cursor, chunk_end, left, phases) ==
    IF left = 0 \/ phase_cursor + 8 > chunk_end
    THEN [phases |-> phases, cursor |-> phase_cursor]
    ELSE LET bbox_type == U32(data, phase_cursor + 4)
         IN  IF bbox_type > chunk_end \/ phase_cursor + 8 + bbox_type * 8 > chunk_end
             THEN [phases |-> phases, cursor |-> phase_cursor]
             ELSE ReadHitPhases(data, phase_cursor + 8 + bbox_type * 8, chunk_end,
                                left - 1,
                                Append(phases, Phase_from_bytes(data, phase_cursor)))

\* MHITEntry.from_bytes: res is "raised" (struct.error) or "entry"
MHITEntry_from_bytes(data, offset, size) ==
    IF offset + 28 > Len(data) THEN [res |-> "raised"]
    ELSE LET chunk_end  == offset + size
             r          == ReadHitPhases(data, offset + 28, chunk_end,
                                         U32(data, offset + 24), <<>>)
             footer_off == r.cursor
             has_footer == footer_off + 4 <= chunk_end
             ref_count  == IF has_footer THEN Min(U32(data, footer_off), size) ELSE 0
             nread      == Min(ref_count, (chunk_end - footer_off - 4) \div 4)
             consumed   == footer_off + 4 + ref_count * 4 - offset
         IN  [res |-> "entry",
              entry |-> [kind       |-> "MHIT",
                         anim_hash  |-> Word(data, offset + 4),
                         event_hash |-> Word(data, offset + 8),
                         start_time |-> Word(data, offset + 12),
                         end_time   |-> Word(data, offset + 16),
                         element_id |-> Word(data, offset + 20),
                         phases     |-> r.phases,
                         ref_hashes |-> IF has_footer
                                        THEN [k \in 1..nread |->
                                                Word(data, footer_off + 4 + (k - 1) * 4)]
                                        ELSE <<>>,
                         footer_extra |-> IF has_footer /\ consumed < size
                                          THEN Slice(data, offset + consumed, offset + size)
                                          ELSE <<>>]]

-----------------------------------------------------------------------------
(* canim_meta.py: chunks in general *)

\* chunk.to_bytes()
Chunk_to_bytes(c) ==
    IF c.kind = "MHIT" THEN MHITEntry_to_bytes(c)
    ELSE IF c.kind = "MCOL" THEN MCOLEntry_to_bytes(c)
    ELSE RawChunk_to_bytes(c)

\* chunk.byte_size
Chunk_byte_size(c) ==
    IF c.kind = "MHIT" THEN MHITEntry_byte_size(c)
    ELSE IF c.kind = "MCOL" THEN MCOLEntry_byte_size(c)
    ELSE Len(c.raw)


-----------------------------------------------------------------------------
(* canim_meta.py: CAnimMeta *)

\* CAnimMeta.__init__
CAnimMeta_init ==
    [version |-> P32(1), anim_hash |-> P32(0), entry_count |-> P32(0),
     chunks |-> <<>>, trailing_bytes |-> <<>>]

RECURSIVE FindFrom(_, _, _)
\* the loop of _find_chunk_boundaries from pos on: the scan advances one byte
\* at a time up to the next offset holding a marker, records it, and goes on
\* four bytes later
FindFrom(data, pos, positions) ==
    LET hits == {p \in pos..(Len(data) - 4) : Slice(data, p, p + 4) \in CHUNK_MAGICS}
    IN  IF hits = {} THEN positions
        ELSE LET p == CHOOSE q \in hits : \A r \in hits : q <= r
             IN  FindFrom(data, p + 4, Append(positions, <<p, Slice(data, p, p + 4)>>))

\* a scan that only looks at the offsets that are multiples of 4
find_chunk_boundaries_aligned(data) ==
    SelectSeq(FindFrom(data, 12, <<>>), LAMBDA x : x[1] % 4 = 0)

\* _find_chunk_boundaries: the (offset, tag) pairs
find_chunk_boundaries(data) == FindFrom(data, 12, <<>>)

\* the loop body without the comparison of the re-encoding with the raw span
CAnimMeta_load_chunk_unverified(data, cpos, csize, cmagic) ==
    LET raw_data == Slice(data, cpos, cpos + csize)
    IN  IF cmagic = MHIT
        THEN LET r == MHITEntry_from_bytes(data, cpos, csize)
             IN  IF r.res = "entry" THEN r.entry ELSE RawChunk(cmagic, raw_data)
        ELSE IF cmagic = MCOL
        THEN LET r == MCOLEntry_from_bytes(data, cpos, csize)
             IN  IF r.res = "entry" THEN r.entry ELSE RawChunk(cmagic, raw_data)
        ELSE RawChunk(cmagic, raw_data)

\* the loop body comparing only the length of the re-encoding with the
\* length of the raw span
CAnimMeta_load_chunk_by_length(data, cpos, csize, cmagic) ==
    LET raw_data == Slice(data, cpos, cpos + csize)
    IN  IF cmagic = MHIT
        THEN LET r == MHITEntry_from_bytes(data, cpos, csize)
             IN  IF r.res = "entry" /\ Len(MHITEntry_to_bytes(r.entry)) = Len(raw_data)
                 THEN r.entry
                 ELSE RawChunk(cmagic, raw_data)
        ELSE IF cmagic = MCOL
        THEN LET r == MCOLEntry_from_bytes(data, cpos, csize)
             IN  IF r.res = "entry" /\ Len(MCOLEntry_to_bytes(r.entry)) = Len(raw_data)
                 THEN r.entry
                 ELSE RawChunk(cmagic, raw_data)
        ELSE RawChunk(cmagic, raw_data)

\* the body of load's loop for one boundary: decode, re-encode, compare,
\* keep the structured entry or fall back to a RawChunk
CAnimMeta_load_chunk(data, cpos, csize, cmagic) ==
    LET raw_data == Slice(data, cpos, cpos + csize)
    IN  IF cmagic = MHIT
        THEN LET r == MHITEntry_from_bytes(data, cpos, csize)
             IN  IF r.res = "entry" /\ MHITEntry_to_bytes(r.entry) = raw_data
                 THEN r.entry
                 ELSE RawChunk(cmagic, raw_data)
        ELSE IF cmagic = MCOL
        THEN LET r == MCOLEntry_from_bytes(data, cpos, csize)
             IN  IF r.res = "entry" /\ MCOLEntry_to_bytes(r.entry) = raw_data
                 THEN r.entry
                 ELSE RawChunk(cmagic, raw_data)
        ELSE RawChunk(cmagic, raw_data)

\* the size load gives chunk i: up to the next marker, or to the buffer end
ChunkSize(data, positions, i) ==
    IF i + 1 <= Len(positions) THEN positions[i + 1][1] - positions[i][1]
    ELSE Len(data) - positions[i][1]

\* CAnimMeta.load
CAnimMeta_load(data) ==
    IF Len(data) < 12
    THEN [version |-> IF Len(data) >= 4 THEN Word(data, 0) ELSE P32(0),
          anim_hash |-> IF Len(data) >= 8 THEN Word(data, 4) ELSE P32(0),
          entry_count |-> P32(0), chunks |-> <<>>, trailing_bytes |-> <<>>]
    ELSE LET chunk_positions == find_chunk_boundaries(data)
             data_end == IF chunk_positions # <<>>
                         THEN LET last_pos == chunk_positions[Len(chunk_positions)][1]
                              IN  last_pos + (Len(data) - last_pos)
                         ELSE 12
         IN  [version |-> Word(data, 0), anim_hash |-> Word(data, 4),
              entry_count |-> Word(data, 8),
              chunks |-> [i \in 1..Len(chunk_positions) |->
                            CAnimMeta_load_chunk(data, chunk_positions[i][1],
                                                 ChunkSize(data, chunk_positions, i),
                                                 chunk_positions[i][2])],
              trailing_bytes |-> IF data_end < Len(data)
                                 THEN Slice(data, data_end, Len(data)) ELSE <<>>]

\* _rebuild_bytes (the bytes CAnimMeta.save writes)
rebuild_bytes(m) ==
    m.version \o m.anim_hash \o P32(Len(m.chunks))
        \o Concat([i \in 1..Len(m.chunks) |-> Chunk_to_bytes(m.chunks[i])])
        \o m.trailing_bytes

-----------------------------------------------------------------------------
(* canim_meta.py: scale *)

\* x and y coordinates of all segment endpoints of the given phases
SegXs(phases) ==
    Concat([p \in 1..Len(phases) |->
              Concat([s \in 1..Len(phases[p].segments) |->
                        <<phases[p].segments[s].x1, phases[p].segments[s].x2>>])])
SegYs(phases) ==
    Concat([p \in 1..Len(phases) |->
              Concat([s \in 1..Len(phases[p].segments) |->
                        <<phases[p].segments[s].y1, phases[p].segments[s].y2>>])])

\* get_bounds of CollisionPhase (one phase) and of MCOLEntry (all phases)
Bounds_of(phases) ==
    LET xs == SegXs(phases)
        ys == SegYs(phases)
    IN  IF xs = <<>> THEN <<FZero, FZero, FZero, FZero>>
        ELSE <<FMin(xs), FMin(ys), FMax(xs), FMax(ys)>>

CollisionPhase_get_bounds(ph) == Bounds_of(<<ph>>)
MCOLEntry_get_bounds(e) == Bounds_of(e.phases)

\* (a + b) / 2 in fixed point
Mid(a, b) == (Fx(a) + Fx(b)) \div 2

\* CollisionSegment.scale(factor, cx, cy); cx, cy in fixed point
CollisionSegment_scale(s, factor, cx, cy) ==
    [x1 |-> FPack(cx + (Fx(s.x1) - cx) * factor),
     y1 |-> FPack(cy + (Fx(s.y1) - cy) * factor),
     x2 |-> FPack(cx + (Fx(s.x2) - cx) * factor),
     y2 |-> FPack(cy + (Fx(s.y2) - cy) * factor)]

\* CollisionPhase.scale(factor, cx, cy) with both centres given
CollisionPhase_scale(ph, factor, cx, cy) ==
    [ph EXCEPT !.segments =
        [i \in 1..Len(ph.segments) |-> CollisionSegment_scale(ph.segments[i], factor, cx, cy)]]

\* CollisionPhase.scale(factor) with cx = cy = None: the phase's own centre
CollisionPhase_scale_own(ph, factor) ==
    LET b == CollisionPhase_get_bounds(ph)
    IN  CollisionPhase_scale(ph, factor, Mid(b[1], b[3]), Mid(b[2], b[4]))

\* what a per-phase centre would give (the plausible slip: centres not passed on)
MCOLEntry_scale_per_phase(e, factor) ==
    [e EXCEPT !.phases =
        [i \in 1..Len(e.phases) |-> CollisionPhase_scale_own(e.phases[i], factor)]]

\* MCOLEntry.scale(factor)
MCOLEntry_scale(e, factor) ==
    LET b  == MCOLEntry_get_bounds(e)
        cx == Mid(b[1], b[3])
        cy == Mid(b[2], b[4])
    IN  [e EXCEPT !.phases =
            [i \in 1..Len(e.phases) |-> CollisionPhase_scale(e.phases[i], factor, cx, cy)]]

\* Phase.scale(factor)
Phase_scale(ph, factor) ==
    LET cx == Mid(ph.minX, ph.maxX)
        cy == Mid(ph.minY, ph.maxY)
        hw == ((Fx(ph.maxX) - Fx(ph.minX)) \div 2) * factor
        hh == ((Fx(ph.maxY) - Fx(ph.minY)) \div 2) * factor
        n  == Len(ph.raw_floats)
    IN  [ph EXCEPT !.minX = FPack(cx - hw), !.maxX = FPack(cx + hw),
                   !.minY = FPack(cy - hh), !.maxY = FPack(cy + hh),
                   !.raw_floats =
                      IF ph.has_raw
                      THEN [i \in 1..(2 * ((n + 1) \div 2)) |->
                              IF i % 2 = 1
                              THEN FPack(cx + (Fx(ph.raw_floats[i]) - cx) * factor)
                              ELSE FPack(cy + ((IF i <= n THEN Fx(ph.raw_floats[i]) ELSE 0)
                                               - cy) * factor)]
                      ELSE ph.raw_floats]

\* the coordinates a scale or move of chunk c computes with
ChunkCoords(c) ==
    IF c.kind = "MCOL" THEN SegXs(c.phases) \o SegYs(c.phases)
    ELSE IF c.kind = "MHIT"
    THEN Concat([i \in 1..Len(c.phases) |->
                   <<c.phases[i].minX, c.phases[i].minY,
                     c.phases[i].maxX, c.phases[i].maxY>> \o c.phases[i].raw_floats])
    ELSE <<>>

\* largest coordinate the arithmetic of the model is carried out on
MaxCoord == 1024

\* the edits are explored on chunks whose coordinates are multiples of 1/2
\* of magnitude at most MaxCoord: there the code's double arithmetic is exact
ExactCoords(c) ==
    \A i \in 1..Len(ChunkCoords(c)) :
        LET w == ChunkCoords(c)[i]
        IN  FxExact(w) /\ Fx(w) % 2 = 0
            /\ Fx(w) <= MaxCoord * FxUnit /\ Fx(w) >= 0 - MaxCoord * FxUnit

\* Python's seq[idx]: the 1-based position, or 0 for an IndexError
PyIndex(n, idx) ==
    IF idx >= 0 /\ idx < n THEN idx + 1
    ELSE IF idx < 0 /\ idx >= 0 - n THEN n + idx + 1
    ELSE 0

\* cmd_scale(meta, [entry, factor]): the document after the command
cmd_scale(m, entry, factor) ==
    LET i == PyIndex(Len(m.chunks), entry - 1)
    IN  IF i = 0 THEN m
        ELSE LET c == m.chunks[i]
             IN  IF c.kind = "MHIT"
                 THEN [m EXCEPT !.chunks[i].phases =
                         [k \in 1..Len(c.phases) |-> Phase_scale(c.phases[k], factor)]]
                 ELSE IF c.kind = "MCOL"
                 THEN [m EXCEPT !.chunks[i] = MCOLEntry_scale(c, factor)]
                 ELSE m


-----------------------------------------------------------------------------
(* Event-container input files: a 12-byte header, optional bytes before    *)
(* the first marker, and up to MaxChunks chunks drawn from ChunkPool.      *)

\* chunks per generated file
MaxChunks == 2

AnimHashW == <<221, 204, 187, 170>>
EvHashW   == <<1, 2, 3, 4>>

MetaHeader(n) == P32(1) \o AnimHashW \o P32(n)

\* tag, anim hash, event hash, start 0.0, end 1.0, element id 3, phase count
ChunkHead(tag, nph) ==
    tag \o AnimHashW \o EvHashW \o FInt(0) \o FInt(1) \o P32(3) \o P32(nph)

\* a 4-point hit phase in corner order (0,0),(0,10),(10,10),(10,0)
HitPhaseCanon ==
    FInt(0) \o P32(4) \o FInt(0) \o FInt(0) \o FInt(0) \o FInt(10)
            \o FInt(10) \o FInt(10) \o FInt(10) \o FInt(0)
\* the same 4 points in the order (0,0),(10,0),(10,10),(0,10)
HitPhaseOther ==
    FInt(0) \o P32(4) \o FInt(0) \o FInt(0) \o FInt(10) \o FInt(0)
            \o FInt(10) \o FInt(10) \o FInt(0) \o FInt(10)
\* a 2-point hit phase (2,4),(6,8)
HitPhase2 == FInt(0) \o P32(2) \o FInt(2) \o FInt(4) \o FInt(6) \o FInt(8)

\* a collision phase of one segment (x1,y1)-(x2,y2) followed by sep
ColPhase1(x1, y1, x2, y2, sep) ==
    FInt(0) \o P32(1) \o FInt(x1) \o FInt(y1) \o FInt(x2) \o FInt(y2) \o sep

ChunkPool ==
    { \* hit chunks: canonical (structured), other point order, 2-point with
      \* footer extra, declared 2 phases with 1 present, 1 ref hash
      ChunkHead(MHIT, 1) \o HitPhaseCanon \o P32(1) \o EvHashW,
      ChunkHead(MHIT, 1) \o HitPhaseOther \o P32(0),
      ChunkHead(MHIT, 1) \o HitPhase2 \o P32(0) \o <<9, 9>>,
      ChunkHead(MHIT, 2) \o HitPhaseCanon \o P32(0),
      \* collision chunks: two phases, bad separator, segment count 0 and
      \* 201, bytes after the reference count, bad separator in phase 2
      ChunkHead(MCOL, 2) \o ColPhase1(0, 0, 10, 0, SeparatorZeros)
                         \o ColPhase1(0, 10, 10, 10, SeparatorZeros) \o P32(0),
      ChunkHead(MCOL, 1) \o ColPhase1(0, 0, 10, 0, <<0, 0, 1, 0, 0>>) \o P32(0),
      ChunkHead(MCOL, 1) \o FInt(0) \o P32(0) \o P32(0),
      ChunkHead(MCOL, 1) \o FInt(0) \o P32(201) \o P32(0),
      ChunkHead(MCOL, 1) \o ColPhase1(1, 2, 3, 4, SeparatorZeros) \o P32(7) \o <<5, 5, 5>>,
      ChunkHead(MCOL, 2) \o ColPhase1(0, 0, 10, 0, SeparatorZeros)
                         \o ColPhase1(0, 10, 10, 10, <<0, 0, 0, 0, 255>>) \o P32(0),
      \* an action chunk, and a collision chunk cut inside its header
      MACT \o AnimHashW \o EvHashW \o <<108, 117, 97>>,
      SubSeq(ChunkHead(MCOL, 1), 1, 20) }

\* the well-formed chunks that may accompany any chunk of the pool
FillerPool ==
    { ChunkHead(MHIT, 1) \o HitPhaseCanon \o P32(1) \o EvHashW,
      ChunkHead(MCOL, 2) \o ColPhase1(0, 0, 10, 0, SeparatorZeros)
                         \o ColPhase1(0, 10, 10, 10, SeparatorZeros) \o P32(0),
      MACT \o AnimHashW \o EvHashW \o <<108, 117, 97>> }

RECURSIVE ChunkSeqs(_)
\* the sequences of at most n chunks of the pool with at most one chunk
\* from outside FillerPool
ChunkSeqs(n) ==
    IF n = 0 THEN {<<>>}
    ELSE LET shorter == ChunkSeqs(n - 1)
             full    == {x \in shorter : Len(x) = n - 1}
         IN  shorter \cup
             {Append(cs, c) : cs \in {x \in full : \A i \in 1..Len(x) : x[i] \in FillerPool},
                              c \in ChunkPool}
             \cup {Append(cs, c) : cs \in full, c \in FillerPool}

\* how the declared count and the bytes before the first marker vary:
\* <<declared count minus number of chunks, bytes before the first marker>>
HeaderShapes == { <<0, <<>> >>, <<1, <<>> >>, <<0, <<7>> >> }

MetaInputs ==
    { MetaHeader(Len(cs) + h[1]) \o h[2] \o Concat(cs) : cs \in ChunkSeqs(MaxChunks), h \in HeaderShapes }
    \cup { SubSeq(MetaHeader(0), 1, k) : k \in {0, 4, 11} }
    \cup { MetaHeader(0) \o <<1, 2, 3>>, MetaHeader(0) \o <<77, 72, 73>> }
    \cup { MetaHeader(1) \o MACT, MetaHeader(2) \o <<77>> \o MHIT \o MCOL,
           MetaHeader(1) \o <<77, 72, 73>> \o MACT \o <<77, 65, 67>>,
           MetaHeader(2) \o ChunkHead(MHIT, 1) \o HitPhaseOther \o P32(0)
                         \o ChunkHead(MHIT, 1) \o HitPhase2 \o P32(0) \o <<9, 9>>,
           \* hit chunks declaring 2 reference hashes with 1 present, cut
           \* inside their only phase, and ending before the reference count
           MetaHeader(1) \o ChunkHead(MHIT, 1) \o HitPhaseCanon \o P32(2) \o EvHashW,
           MetaHeader(1) \o ChunkHead(MHIT, 1) \o SubSeq(HitPhaseCanon, 1, 20),
           MetaHeader(1) \o ChunkHead(MHIT, 1) \o HitPhase2 }

-----------------------------------------------------------------------------
(* The event-container tool as a state machine: load, then edit commands.  *)

ScaleFactors == {2, 3}

\* entry numbers a command may be given: 0 (index -1), 1..N, and N+1
EntryArgs(m) == 0..(Len(m.chunks) + 1)

NoOp == [cmd |-> "none"]
NoJson == [format |-> "none"]
\* no <path>.bak file on disk
NoBak == [exists |-> FALSE, data |-> <<>>]
NoCount == [success |-> 0, errors |-> 0, skipped |-> 0, warnings |-> 0]

\* the parts of the state a specification does not use
MetaIdle  ==
    /\ file = <<>> /\ meta = CAnimMeta_init /\ mpc = "idle" /\ lastop = NoOp
    /\ mjson = NoJson /\ bak = NoBak
AnimIdle  == afile = <<>> /\ ajson = NoJson /\ aout = <<>> /\ apc = "idle"
BatchIdle == btool = "idle" /\ bfolder = <<>> /\ bdone = <<>> /\ bcount = NoCount

InitMeta ==
    /\ file \in MetaInputs
    /\ meta = CAnimMeta_init
    /\ mpc = "start"
    /\ lastop = NoOp
    /\ mjson = NoJson
    /\ bak = NoBak
    /\ nedits = 0
    /\ AnimIdle /\ BatchIdle

\* meta.load(filepath)
Load ==
    /\ mpc = "start"
    /\ meta' = CAnimMeta_load(file)
    /\ mpc' = "loaded"
    /\ lastop' = [cmd |-> "load"]
    /\ UNCHANGED <<file, mjson, bak, nedits, animvars, batchvars>>

\* the command "scale <entry> <factor>"
Scale ==
    /\ mpc = "loaded"
    /\ nedits < MaxEdits
    /\ \E entry \in EntryArgs(meta), factor \in ScaleFactors :
          LET i == PyIndex(Len(meta.chunks), entry - 1)
          IN  /\ i # 0 => ExactCoords(meta.chunks[i])
              /\ meta' = cmd_scale(meta, entry, factor)
              /\ lastop' = [cmd |-> "scale", entry |-> entry, factor |-> factor,
                            index |-> i, before |-> meta]
    /\ nedits' = nedits + 1
    /\ UNCHANGED <<file, mpc, mjson, bak, animvars, batchvars>>

NextMeta == Load \/ Scale

SpecMeta == InitMeta /\ [][NextMeta]_vars

-----------------------------------------------------------------------------
(* What the claims about the event container speak of, stated on the file  *)
(* itself rather than through the loader.                                   *)

\* the offsets from 12 on at which a chunk marker stands
MarkerSet(data) ==
    {p \in 12..(Len(data) - 4) : SubSeq(data, p + 1, p + 4) \in CHUNK_MAGICS}

\* the i-th marker offset in increasing order
NthMarker(data, i) ==
    CHOOSE p \in MarkerSet(data) : Cardinality({q \in MarkerSet(data) : q < p}) = i - 1

\* the raw span of the i-th chunk: from its marker to the next marker or the end
RawSpan(data, i) ==
    LET from == NthMarker(data, i)
        to   == IF i < Cardinality(MarkerSet(data)) THEN NthMarker(data, i + 1)
                ELSE Len(data)
    IN  SubSeq(data, from + 1, to)

JustLoaded == mpc = "loaded" /\ lastop.cmd = "load"

\* C1 as stated: for every buffer of at least 12 bytes, load then re-encode
\* with no edits gives back the buffer
C1_RoundTrip ==
    (JustLoaded /\ Len(file) >= 12) => rebuild_bytes(meta) = file

\* C3: after load, a chunk is structured only if its tag is MHIT (MCOL) and
\* its to_bytes() equals its raw span; every other chunk, MACT chunks and
\* chunks whose decode raised or whose re-encoding differs included, is a
\* RawChunk holding the raw span
C3_VerifyOrFallback ==
    JustLoaded /\ Len(file) >= 12 =>
        /\ Len(meta.chunks) = Cardinality(MarkerSet(file))
        /\ \A i \in 1..Len(meta.chunks) :
              LET c    == meta.chunks[i]
                  off  == NthMarker(file, i)
                  raw  == RawSpan(file, i)
                  tag  == SubSeq(raw, 1, 4)
              IN  /\ c.kind = "MHIT" => tag = MHIT /\ MHITEntry_to_bytes(c) = raw
                  /\ c.kind = "MCOL" => tag = MCOL /\ MCOLEntry_to_bytes(c) = raw
                  /\ c.kind \in {"MHIT", "MCOL", "Raw"}
                  /\ c.kind = "Raw" => c.raw = raw /\ c.magic = tag
                  /\ tag = MACT => c.kind = "Raw"
                  /\ (tag = MHIT /\ MHITEntry_from_bytes(file, off, Len(raw)).res # "entry")
                        => c.kind = "Raw"
                  /\ (tag = MCOL /\ MCOLEntry_from_bytes(file, off, Len(raw)).res # "entry")
                        => c.kind = "Raw"

\* C3's case: a loaded file holding a structured chunk, a hit chunk that
\* decodes but re-encodes differently, and a chunk whose decode raised
C3_Witness ==
    /\ JustLoaded
    /\ \E i \in 1..Len(meta.chunks) : meta.chunks[i].kind = "MCOL"
    /\ \E i \in 1..Len(meta.chunks) :
          /\ meta.chunks[i].kind = "Raw" /\ meta.chunks[i].magic = MHIT
          /\ LET r == MHITEntry_from_bytes(file, NthMarker(file, i), Len(RawSpan(file, i)))
             IN  r.res = "entry" /\ MHITEntry_to_bytes(r.entry) # RawSpan(file, i)

RECURSIVE ColWalkBad(_, _, _)
\* walking the phases of a collision chunk by its declared layout from off:
\* some phase declares a segment count outside 1..200, or some segment lying
\* in the chunk has a separator that is not five zero bytes
ColWalkBad(raw, off, left) ==
    IF left = 0 \/ off + 8 > Len(raw) THEN FALSE
    ELSE LET n == U32(raw, off + 4)
         IN  \/ n < 1
             \/ n > 200
             \/ \E j \in 0..(n - 1) :
                   /\ off + 8 + 21 * j + 21 <= Len(raw)
                   /\ SubSeq(raw, off + 8 + 21 * j + 17, off + 8 + 21 * j + 21) # <<0, 0, 0, 0, 0>>
             \/ ColWalkBad(raw, off + 8 + 21 * n, left - 1)

\* a collision chunk with a bad separator or a bad segment count
BadCollision(raw) ==
    /\ Len(raw) >= 28
    /\ SubSeq(raw, 1, 4) = MCOL
    /\ ColWalkBad(raw, 28, Min(U32(raw, 24), Len(raw)))

\* C4: a collision chunk with a non-zero separator or a segment count outside
\* 1..200 is not decoded as a structured chunk, is stored as one RawChunk for
\* the whole chunk, and the encoder re-emits its raw bytes
C4_BadCollisionOpaque ==
    JustLoaded /\ Len(file) >= 12 =>
        \A i \in 1..Cardinality(MarkerSet(file)) :
            BadCollision(RawSpan(file, i)) =>
                /\ i <= Len(meta.chunks)
                /\ MCOLEntry_from_bytes(file, NthMarker(file, i), Len(RawSpan(file, i))).res # "entry"
                /\ meta.chunks[i].kind = "Raw"
                /\ meta.chunks[i].raw = RawSpan(file, i)
                /\ Chunk_to_bytes(meta.chunks[i]) = RawSpan(file, i)

\* C4's case: a loaded file with a collision chunk whose second phase has a
\* bad separator, stored next to a structured collision chunk
C4_Witness ==
    /\ JustLoaded
    /\ \E i \in 1..Len(meta.chunks) :
          /\ BadCollision(RawSpan(file, i))
          /\ ~ ColWalkBad(RawSpan(file, i), 28, 1)
          /\ meta.chunks[i].kind = "Raw"
    /\ \E i \in 1..Len(meta.chunks) : meta.chunks[i].kind = "MCOL"

\* the endpoints of all segments of all phases of a collision chunk, as
\* <<phase, segment, x, y>> with x, y the coordinate words
Endpoints(e) ==
    UNION { UNION { { <<p, k, e.phases[p].segments[k].x1, e.phases[p].segments[k].y1>>,
                      <<p, k, e.phases[p].segments[k].x2, e.phases[p].segments[k].y2>> } :
                    k \in 1..Len(e.phases[p].segments) } :
            p \in 1..Len(e.phases) }

SetMin(S) == CHOOSE x \in S : \A y \in S : x <= y
SetMax(S) == CHOOSE x \in S : \A y \in S : x >= y

\* twice the centre of the bounding box of all endpoints, in fixed point
BoxCentre2(e) ==
    LET xs == {Fx(q[3]) : q \in Endpoints(e)}
        ys == {Fx(q[4]) : q \in Endpoints(e)}
    IN  <<SetMin(xs) + SetMax(xs), SetMin(ys) + SetMax(ys)>>

\* a segment with the whole-number endpoints (x1,y1)-(x2,y2)
Seg(x1, y1, x2, y2) == [x1 |-> FInt(x1), y1 |-> FInt(y1), x2 |-> FInt(x2), y2 |-> FInt(y2)]

ScaledCollision ==
    /\ lastop.cmd = "scale"
    /\ lastop.index # 0
    /\ lastop.before.chunks[lastop.index].kind = "MCOL"

\* C8: scale maps every endpoint (x, y) of every phase of a collision chunk
\* to (cx + (x-cx)*f, cy + (y-cy)*f) with (cx, cy) the centre of the bounding
\* box of all endpoints of all phases; phases (0,0)-(10,0) and (0,10)-(10,10)
\* scaled by 2 become (-5,-5)-(15,-5) and (-5,15)-(15,15)
C8_SharedCentroid ==
    ScaledCollision =>
        LET old == lastop.before.chunks[lastop.index]
            new == meta.chunks[lastop.index]
            f   == lastop.factor
            c2  == BoxCentre2(old)
        IN  /\ new.kind = "MCOL"
            /\ Len(new.phases) = Len(old.phases)
            /\ \A p \in 1..Len(old.phases) :
                  /\ Len(new.phases[p].segments) = Len(old.phases[p].segments)
                  /\ \A k \in 1..Len(old.phases[p].segments) :
                        LET a == old.phases[p].segments[k]
                            b == new.phases[p].segments[k]
                        IN  /\ 2 * Fx(b.x1) = c2[1] + (2 * Fx(a.x1) - c2[1]) * f
                            /\ 2 * Fx(b.y1) = c2[2] + (2 * Fx(a.y1) - c2[2]) * f
                            /\ 2 * Fx(b.x2) = c2[1] + (2 * Fx(a.x2) - c2[1]) * f
                            /\ 2 * Fx(b.y2) = c2[2] + (2 * Fx(a.y2) - c2[2]) * f
                            /\ FxExact(b.x1) /\ FxExact(b.y1) /\ FxExact(b.x2) /\ FxExact(b.y2)
            /\ ( /\ f = 2
                 /\ [p \in 1..Len(old.phases) |-> old.phases[p].segments]
                       = << <<Seg(0, 0, 10, 0)>>, <<Seg(0, 10, 10, 10)>> >> )
               => [p \in 1..Len(new.phases) |-> new.phases[p].segments]
                       = << <<Seg(0 - 5, 0 - 5, 15, 0 - 5)>>, <<Seg(0 - 5, 15, 15, 15)>> >>

\* C8's case: the two-phase chunk (0,0)-(10,0), (0,10)-(10,10) was scaled by 2
C8_Witness ==
    /\ ScaledCollision
    /\ lastop.factor = 2
    /\ [p \in 1..Len(lastop.before.chunks[lastop.index].phases) |->
           lastop.before.chunks[lastop.index].phases[p].segments]
          = << <<Seg(0, 0, 10, 0)>>, <<Seg(0, 10, 10, 10)>> >>
    /\ meta.chunks[lastop.index].phases[1].segments[1].x1 = FInt(0 - 5)

-----------------------------------------------------------------------------
(* canim.py: read helpers.  A read that raises ValueError has ok = FALSE.  *)
(* Strings are sequences of code points.                                    *)

\* the replacement character of decode('ascii', errors='replace')
Replacement == 65533

\* bytes.decode('ascii', errors='replace')
DecodeAscii(b) == [i \in 1..Len(b) |-> IF b[i] >= 128 THEN Replacement ELSE b[i]]

\* whether str.encode('ascii') succeeds
Encodable(s) == \A i \in 1..Len(s) : s[i] < 128

\* rstr(d, p): [ok, s, p]
rstr(d, p) ==
    IF p + 4 > Len(d) THEN [ok |-> FALSE, s |-> <<>>, p |-> p]
    ELSE LET l == U32(d, p)
         IN  IF l > 500 \/ p + 4 + l > Len(d)
             THEN [ok |-> FALSE, s |-> <<>>, p |-> p + 4]
             ELSE [ok |-> TRUE, s |-> DecodeAscii(Slice(d, p + 4, p + 4 + l)),
                   p |-> p + 4 + l]

\* wstr(buf, s): the bytes appended, for an encodable s
wstr(s) == P32(Len(s)) \o s

\* valid_str(d, p)
valid_str(d, p) ==
    IF p + 4 > Len(d) THEN FALSE
    ELSE LET l == U32(d, p)
         IN  IF l = 0 \/ l > 300 \/ p + 4 + l > Len(d) THEN FALSE
             ELSE \A i \in 0..(l - 1) : 32 <= d[p + 4 + i + 1] /\ d[p + 4 + i + 1] < 127

\* empty_str_at(d, p)
empty_str_at(d, p) ==
    IF p + 4 > Len(d) THEN FALSE ELSE Slice(d, p, p + 4) = <<0, 0, 0, 0>>

\* is_float_reasonable(v)
is_float_reasonable(w) ==
    IF IsNaN(w) \/ IsInf(w) THEN FALSE
    ELSE ~ FLtInt(w, 0 - 10000) /\ ~ FGtInt(w, 10000)

\* the size test shared by both sprite decoders: sw<0 or sh<0 or sw>5000 or sh>5000
SizeOutOfRange(sw, sh) ==
    FLtInt(sw, 0) \/ FLtInt(sh, 0) \/ FGtInt(sw, 5000) \/ FGtInt(sh, 5000)

NoSprite == [ok |-> FALSE, sprite |-> <<>>, p |-> 0]

Sprite(frame, unk, name, p, d, empty) ==
    [ok |-> TRUE,
     sprite |-> [frame |-> frame, unk |-> unk, name |-> name,
                 width |-> Word(d, p), height |-> Word(d, p + 4),
                 pivot_x |-> Word(d, p + 8), pivot_y |-> Word(d, p + 12),
                 empty |-> empty],
     p |-> p + 16]

\* try_parse_sprite(d, pos, fs): [ok, sprite, p]; ok = FALSE is None
try_parse_sprite(d, pos, fs) ==
    IF pos + 4 > fs \/ pos + 4 > Len(d) THEN NoSprite
    ELSE LET spf == U16(d, pos)
             spu == U16(d, pos + 2)
             p   == pos + 4
         IN  IF empty_str_at(d, p)
             THEN IF p + 4 + 16 > fs \/ p + 4 + 16 > Len(d) THEN NoSprite
                  ELSE Sprite(spf, spu, <<>>, p + 4, d, TRUE)
             ELSE IF ~ valid_str(d, p) THEN NoSprite
             ELSE LET r == rstr(d, p)
                  IN  IF r.p + 16 > fs \/ r.p + 16 > Len(d) THEN NoSprite
                      ELSE IF ~ ( is_float_reasonable(Word(d, r.p))
                                  /\ is_float_reasonable(Word(d, r.p + 4))
                                  /\ is_float_reasonable(Word(d, r.p + 8))
                                  /\ is_float_reasonable(Word(d, r.p + 12)) )
                      THEN NoSprite
                      ELSE IF SizeOutOfRange(Word(d, r.p), Word(d, r.p + 4)) THEN NoSprite
                      ELSE Sprite(spf, spu, r.s, r.p, d, FALSE)

\* try_parse_bare_sprite(d, pos, fs)
try_parse_bare_sprite(d, pos, fs) ==
    IF ~ valid_str(d, pos) THEN NoSprite
    ELSE LET r == rstr(d, pos)
         IN  IF r.p + 16 > fs \/ r.p + 16 > Len(d) THEN NoSprite
             ELSE IF ~ ( is_float_reasonable(Word(d, r.p))
                         /\ is_float_reasonable(Word(d, r.p + 4))
                         /\ is_float_reasonable(Word(d, r.p + 8))
                         /\ is_float_reasonable(Word(d, r.p + 12)) )
             THEN NoSprite
             ELSE IF SizeOutOfRange(Word(d, r.p), Word(d, r.p + 4)) THEN NoSprite
             ELSE Sprite(0, 0, r.s, r.p, d, FALSE)

KNOWN_RATES == {1, 2, 3, 4, 5, 6, 8, 10, 12, 15, 20, 24, 25, 30, 60}

\* whether the character c occurs in the string s
InStr(c, s) == \E i \in 1..Len(s) : s[i] = c

\* is_symbol_header without the test for '/' in the name
is_symbol_header_any_name(d, pos, fs) ==
    IF ~ valid_str(d, pos) THEN FALSE
    ELSE LET r == rstr(d, pos)
         IN  IF r.p + 3 > fs \/ r.p + 3 > Len(d) THEN FALSE
             ELSE /\ d[r.p + 1] \in KNOWN_RATES
                  /\ U16(d, r.p + 1) <= 5000

\* is_symbol_header(d, pos, fs)
is_symbol_header(d, pos, fs) ==
    IF ~ valid_str(d, pos) THEN FALSE
    ELSE LET r == rstr(d, pos)
         IN  IF r.p + 3 > fs \/ r.p + 3 > Len(d) THEN FALSE
             ELSE /\ d[r.p + 1] \in KNOWN_RATES
                  /\ U16(d, r.p + 1) <= 5000
                  /\ ~ InStr(47, r.s)

\* find_next_symbol with the scan stopped one offset earlier
find_next_symbol_short(d, pos, fs) ==
    CHOOSE next_sym \in
      { IF hits = {} THEN fs ELSE CHOOSE q \in hits : \A r \in hits : q <= r
        : hits \in {{scan \in pos..(fs - 9) : is_symbol_header(d, scan, fs)}} } : TRUE

\* find_next_symbol(d, pos, fs): the first scan in pos..fs-8 holding a symbol
\* header, or fs
find_next_symbol(d, pos, fs) ==
    CHOOSE next_sym \in
      { IF hits = {} THEN fs ELSE CHOOSE q \in hits : \A r \in hits : q <= r
        : hits \in {{scan \in pos..(fs - 8) : is_symbol_header(d, scan, fs)}} } : TRUE

\* whether sub occurs in s as a substring
HasSub(sub, s) ==
    \E i \in 1..(Len(s) - Len(sub) + 1) : SubSeq(s, i, i + Len(sub) - 1) = sub

\* looks_like_section(d, pos, fs, layers)
looks_like_section(d, pos, fs, layers) ==
    IF ~ valid_str(d, pos) THEN FALSE
    ELSE LET r   == rstr(d, pos)
             sfc == U16(d, r.p + 5)
             sec == U16(d, r.p + 7)
             p   == r.p + 9
         IN  IF r.p + 9 > fs \/ r.p + 9 > Len(d) THEN FALSE
             ELSE IF sfc > 10000 \/ sec > 10000 THEN FALSE
             ELSE IF sfc = 0 /\ sec = 0 THEN FALSE
             ELSE IF sec > 0 /\ p + 6 <= fs
                     /\ U16(d, p + 4) >= Len(layers) /\ U16(d, p + 4) > 100
             THEN FALSE
             ELSE TRUE

\* looks_like_build(d, pos, fs); "Slot0/" and "GRP_" as code points
looks_like_build(d, pos, fs) ==
    IF ~ valid_str(d, pos) THEN FALSE
    ELSE LET r == rstr(d, pos)
         IN  \/ HasSub(<<83, 108, 111, 116, 48, 47>>, r.s)
             \/ HasSub(<<71, 82, 80, 95>>, r.s)
             \/ (r.p + 3 <= fs /\ r.p + 1 <= Len(d) /\ d[r.p + 1] \in KNOWN_RATES)

\* bytes.hex(): two digits 0..15 per byte; bytes.fromhex() of such a text
Hex(b) == [i \in 1..(2 * Len(b)) |->
             IF i % 2 = 1 THEN b[(i + 1) \div 2] \div 16 ELSE b[i \div 2] % 16]
FromHex(h) == [i \in 1..(Len(h) \div 2) |-> 16 * h[2 * i - 1] + h[2 * i]]

\* a build entry as parse_build_section makes it and export writes it
Entry(etype, name, rate, nsp, sprites, composite, subs, tl, raw) ==
    [entry_type |-> etype, name |-> name, frame_rate |-> rate, num_sprites |-> nsp,
     sprites |-> sprites, composite |-> composite, sub_symbols |-> subs,
     timeline_size |-> tl, raw_hex |-> Hex(raw)]

RECURSIVE NestedLoop(_, _, _, _, _)
\* the loop of parse_nested_symbol: <<pos, sub_names>> when it ends
NestedLoop(d, pos, fs, count, sub_names) ==
    IF ~ valid_str(d, pos) THEN <<pos, sub_names>>
    ELSE CHOOSE result \in
           { LET tp2  == r.p + 3
                 stop == /\ is_symbol_header(d, pos, fs)
                         /\ U16(d, r.p + 1) < 5000
                         /\ \/ try_parse_sprite(d, tp2, fs).ok
                            \/ (valid_str(d, tp2) /\ Len(sub_names) >= count)
             IN  IF stop THEN <<pos, sub_names>>
                 ELSE IF Len(sub_names) + 1 >= count /\ count > 0
                 THEN <<r.p, Append(sub_names, r.s)>>
                 ELSE NestedLoop(d, r.p, fs, count, Append(sub_names, r.s))
             : r \in {rstr(d, pos)} } : TRUE

\* parse_nested_symbol(d, pos, fs, sym_name, rate, count): <<sym, next_sym>>;
\* entry_start is where the symbol's raw span starts
parse_nested_symbol(d, pos, fs, sym_name, rate, count, entry_start) ==
    CHOOSE result \in
      UNION { { <<Entry("symbol", sym_name, rate, 0, <<>>, TRUE, l[2], next_sym - pos,
                      Slice(d, entry_start, next_sym)),
                next_sym>>
                : next_sym \in {find_next_symbol(d, l[1], fs)} }
              : l \in {NestedLoop(d, pos, fs, count, <<>>)} } : TRUE

RECURSIVE CountedStrings(_, _, _, _)
\* the sn_list loop: up to left valid strings from tp on
CountedStrings(d, tp, left, acc) ==
    IF left = 0 \/ ~ valid_str(d, tp) THEN acc
    ELSE CHOOSE result \in
           { CountedStrings(d, r.p, left - 1, Append(acc, r.s)) : r \in {rstr(d, tp)} } : TRUE

RECURSIVE SpriteLoop(_, _, _, _, _)
\* the sprite loop of a simple symbol: [sprites, pos, sok]
SpriteLoop(d, pos, fs, left, sprites) ==
    IF left = 0 THEN [sprites |-> sprites, pos |-> pos, sok |-> TRUE]
    ELSE CHOOSE loop \in
           { IF ~ result.ok THEN [sprites |-> sprites, pos |-> pos, sok |-> FALSE]
             ELSE SpriteLoop(d, result.p, fs, left - 1, Append(sprites, result.sprite))
             : result \in {try_parse_sprite(d, pos, fs)} } : TRUE

\* the loop body at a symbol header whose count is 0 leaving the cursor at
\* the header when no bytes follow before the next symbol
SymbolCount0_no_advance(d, pos, fs, sn, sr, p1, next_sym) ==
    IF next_sym > p1
    THEN IF p1 + 4 <= fs /\ 0 < U16(d, p1) /\ U16(d, p1) < 200 /\ p1 + 4 < next_sym
            /\ Len(CountedStrings(d, p1 + 4, U16(d, p1), <<>>)) = U16(d, p1)
         THEN [entry |-> Entry("symbol", sn, sr, 0, <<>>, TRUE,
                               CountedStrings(d, p1 + 4, U16(d, p1), <<>>),
                               next_sym - p1, Slice(d, pos, next_sym)),
               pos |-> next_sym, stop |-> FALSE]
         ELSE [entry |-> Entry("symbol", sn, sr, 0, <<>>, FALSE, <<>>,
                               next_sym - p1, Slice(d, pos, next_sym)),
               pos |-> next_sym, stop |-> FALSE]
    ELSE [entry |-> Entry("symbol", sn, sr, 0, <<>>, FALSE, <<>>, 0, Slice(d, pos, p1)),
          pos |-> pos, stop |-> FALSE]

\* the loop body at a symbol header whose count is 0; p1 is the position
\* after the header, next_sym the next symbol header from p1 on
SymbolCount0(d, pos, fs, sn, sr, p1, next_sym) ==
    IF next_sym > p1
    THEN IF p1 + 4 <= fs /\ 0 < U16(d, p1) /\ U16(d, p1) < 200 /\ p1 + 4 < next_sym
            /\ Len(CountedStrings(d, p1 + 4, U16(d, p1), <<>>)) = U16(d, p1)
         THEN [entry |-> Entry("symbol", sn, sr, 0, <<>>, TRUE,
                               CountedStrings(d, p1 + 4, U16(d, p1), <<>>),
                               next_sym - p1, Slice(d, pos, next_sym)),
               pos |-> next_sym, stop |-> FALSE]
         ELSE [entry |-> Entry("symbol", sn, sr, 0, <<>>, FALSE, <<>>,
                               next_sym - p1, Slice(d, pos, next_sym)),
               pos |-> next_sym, stop |-> FALSE]
    ELSE [entry |-> Entry("symbol", sn, sr, 0, <<>>, FALSE, <<>>, 0, Slice(d, pos, p1)),
          pos |-> p1, stop |-> FALSE]

\* the loop body at a symbol header whose count snsp is not 0
SymbolCounted(d, pos, fs, sn, sr, snsp, p1) ==
    IF try_parse_sprite(d, p1, fs).ok
    THEN CHOOSE step \in
           { [entry |-> Entry("symbol", sn, sr, snsp, l.sprites, FALSE, <<>>, 0,
                              Slice(d, pos, l.pos)),
              pos |-> l.pos, stop |-> ~ l.sok]
             : l \in {SpriteLoop(d, p1, fs, snsp, <<>>)} } : TRUE
    ELSE IF valid_str(d, p1)
    THEN CHOOSE step \in
           { [entry |-> n[1], pos |-> n[2], stop |-> FALSE]
             : n \in {parse_nested_symbol(d, p1, fs, sn, sr, snsp, pos)} } : TRUE
    ELSE CHOOSE step \in
           { [entry |-> Entry("symbol", sn, sr, snsp, <<>>, TRUE, <<>>,
                              next_sym - p1, Slice(d, pos, next_sym)),
              pos |-> next_sym, stop |-> FALSE]
             : next_sym \in {find_next_symbol(d, p1, fs)} } : TRUE

\* one pass of the loop body of parse_build_section at a symbol header:
\* [entry, pos, stop]
SymbolAt(d, pos, fs) ==
    CHOOSE step \in
      { IF U16(d, r.p + 1) = 0
        THEN CHOOSE s0 \in
               { SymbolCount0(d, pos, fs, r.s, d[r.p + 1], r.p + 3, next_sym)
                 : next_sym \in {find_next_symbol(d, r.p + 3, fs)} } : TRUE
        ELSE SymbolCounted(d, pos, fs, r.s, d[r.p + 1], U16(d, r.p + 1), r.p + 3)
        : r \in {rstr(d, pos)} } : TRUE

\* a build timeline block whose raw span starts after its name
TimelineAt_after_name(d, pos, fs) ==
    CHOOSE step \in
      { [entry |-> Entry("build_section", rstr(d, pos).s, 0, 0, <<>>, FALSE, <<>>,
                         next_sym - pos, Slice(d, rstr(d, pos).p, next_sym)),
         pos |-> next_sym, stop |-> FALSE]
        : next_sym \in {find_next_symbol(d, pos + 1, fs)} } : TRUE

\* the loop body where no symbol header stands: a build timeline block up to
\* the next symbol header found from pos + 1 on
TimelineAt(d, pos, fs) ==
    CHOOSE step \in
      { [entry |-> Entry("build_section", rstr(d, pos).s, 0, 0, <<>>, FALSE, <<>>,
                         next_sym - pos, Slice(d, pos, next_sym)),
         pos |-> next_sym, stop |-> FALSE]
        : next_sym \in {find_next_symbol(d, pos + 1, fs)} } : TRUE

RECURSIVE BuildLoop(_, _, _, _)
\* the while loop of parse_build_section: [entries, pos]
BuildLoop(d, pos, fs, entries) ==
    IF ~ (pos < fs - 4) THEN [entries |-> entries, pos |-> pos]
    ELSE IF ~ valid_str(d, pos) /\ ~ empty_str_at(d, pos)
    THEN [entries |-> entries, pos |-> pos]
    ELSE CHOOSE loop \in
           { IF step.stop
             THEN [entries |-> Append(entries, step.entry), pos |-> step.pos]
             ELSE BuildLoop(d, step.pos, fs, Append(entries, step.entry))
             : step \in {IF is_symbol_header(d, pos, fs) THEN SymbolAt(d, pos, fs)
                         ELSE TimelineAt(d, pos, fs)} } : TRUE

\* parse_build_section(d, pos, fs, layers, verbose): build_entries and the end
\* position (symbols and build_secs are the entries of either type)
parse_build_section(d, pos, fs) == BuildLoop(d, pos, fs, <<>>)

-----------------------------------------------------------------------------
(* canim.py: parse_canim *)

\* a float32 word after json.dump and json.load: every NaN comes back as the
\* one quiet NaN, every other value as itself
JsonFloat(w) == IF IsNaN(w) THEN <<0, 0, 192, 127>> ELSE w

\* _empty_result(...) and the results of a parse that raised
ParseResult(status) ==
    [status |-> status, magic |-> <<>>, version |-> P32(0), hf1 |-> 0, hf2 |-> 0,
     anim_name |-> <<>>, frame_rate |-> 0, num_clips |-> 0, num_sections |-> 0,
     total_elements |-> 0, unk2 |-> 0, layers |-> <<>>, clips |-> <<>>,
     sections |-> <<>>, build_entries |-> <<>>, minimal_sprites |-> <<>>,
     trail_hex |-> <<>>, has_traditional_sections |-> FALSE, minimal |-> FALSE,
     minimal_meta_hex |-> <<>>]

\* detect_minimal_format(d, pos, fs): a valid string containing '-' followed
\* by a width and a height that are each above 0 and below 5000
detect_minimal_format(d, pos, fs) ==
    IF ~ valid_str(d, pos) THEN FALSE
    ELSE LET r == rstr(d, pos)
         IN  IF ~ InStr(45, r.s) THEN FALSE
             ELSE IF r.p + 16 > fs \/ r.p + 16 > Len(d) THEN FALSE
             ELSE /\ FGtInt(Word(d, r.p), 0) /\ FLtInt(Word(d, r.p), 5000)
                  /\ FGtInt(Word(d, r.p + 4), 0) /\ FLtInt(Word(d, r.p + 4), 5000)

\* the first scan in pos..fs-5 where a valid string containing '-' stands,
\* or -1 (sprite_start is None)
MinimalSpriteStart(data, pos, fs) ==
    CHOOSE sprite_start \in
      { IF hits = {} THEN 0 - 1 ELSE CHOOSE q \in hits : \A r \in hits : q <= r
        : hits \in {{scan \in pos..(fs - 5) :
                       valid_str(data, scan) /\ InStr(45, rstr(data, scan).s)}} } : TRUE

RECURSIVE BareSpriteLoop(_, _, _, _)
\* the bare-sprite loop of the minimal layout: [sprites, pos]
BareSpriteLoop(data, pos, fs, sprites) ==
    IF ~ (pos < fs - 4) THEN [sprites |-> sprites, pos |-> pos]
    ELSE CHOOSE loop \in
           { IF ~ result.ok THEN [sprites |-> sprites, pos |-> pos]
             ELSE BareSpriteLoop(data, result.p, fs, Append(sprites, result.sprite))
             : result \in {try_parse_bare_sprite(data, pos, fs)} } : TRUE

RECURSIVE LayerLoop(_, _, _, _)
\* the layer loop: [layers, pos]
LayerLoop(data, pos, left, layers) ==
    IF left = 0 \/ ~ valid_str(data, pos) THEN [layers |-> layers, pos |-> pos]
    ELSE CHOOSE loop \in
           { LayerLoop(data, r.p, left - 1, Append(layers, r.s)) : r \in {rstr(data, pos)} } : TRUE

RECURSIVE ClipLoop(_, _, _, _)
\* the clip loop: [clips, pos]; a clip whose value is cut off leaves pos after
\* its name
ClipLoop(data, pos, left, clips) ==
    IF left = 0 \/ ~ valid_str(data, pos) THEN [clips |-> clips, pos |-> pos]
    ELSE CHOOSE loop \in
           { IF r.p + 2 > Len(data) THEN [clips |-> clips, pos |-> r.p]
             ELSE ClipLoop(data, r.p + 2, left - 1,
                           Append(clips, [name |-> r.s, value |-> U16(data, r.p)]))
             : r \in {rstr(data, pos)} } : TRUE

\* the sizes of the fields of an element, in reading order, before the pad
ElementFields == <<2, 2, 2, 2, 4, 4, 4, 4, 4, 4, 2, 1, 1, 1, 1, 1>>

RECURSIVE ReadFields(_, _, _)
\* how far the reads of an element get from pos: the position after the last
\* field that fits in the buffer
ReadFields(data, pos, i) ==
    IF i > Len(ElementFields) \/ pos + ElementFields[i] > Len(data) THEN pos
    ELSE ReadFields(data, pos + ElementFields[i], i + 1)

\* the element read at pos, all of its fields lying in the buffer
Element(data, pos) ==
    [index |-> U16(data, pos), unk1 |-> U16(data, pos + 2),
     layer_idx |-> U16(data, pos + 4), unk2 |-> U16(data, pos + 6),
     ma |-> Word(data, pos + 8), md |-> Word(data, pos + 12),
     mb |-> Word(data, pos + 16), mc |-> Word(data, pos + 20),
     tx |-> Word(data, pos + 24), ty |-> Word(data, pos + 28),
     z_ord |-> U16(data, pos + 32), type |-> data[pos + 35],
     color |-> Slice(data, pos + 35, pos + 39),
     pad |-> Hex(Slice(data, pos + 39, pos + 43))]

RECURSIVE ElementLoop(_, _, _, _)
\* the element loop of one section: [elements, pos, ok]
ElementLoop(data, pos, left, elements) ==
    IF left = 0 THEN [elements |-> elements, pos |-> pos, ok |-> TRUE]
    ELSE IF pos + 39 > Len(data)
    THEN [elements |-> elements, pos |-> ReadFields(data, pos, 1), ok |-> FALSE]
    ELSE ElementLoop(data, pos + 43, left - 1, Append(elements, Element(data, pos)))

\* the section read at pos, r its name as rstr gives it and el its elements
Section(data, r, el) ==
    [name |-> r.s, unknown |-> Word(data, r.p), facing |-> data[r.p + 5],
     frame_count |-> U16(data, r.p + 5), element_count |-> U16(data, r.p + 7),
     elements |-> el.elements]

RECURSIVE SectionLoop(_, _, _, _, _, _)
\* the section loop: [sections, pos]
SectionLoop(data, pos, fs, layers, left, sections) ==
    IF left = 0 \/ ~ looks_like_section(data, pos, fs, layers)
    THEN [sections |-> sections, pos |-> pos]
    ELSE CHOOSE loop \in
           UNION { { IF ~ el.ok
                     THEN [sections |-> Append(sections, Section(data, r, el)),
                           pos |-> el.pos]
                     ELSE SectionLoop(data, el.pos, fs, layers, left - 1,
                                      Append(sections, Section(data, r, el)))
                     : el \in {ElementLoop(data, r.p + 9, U16(data, r.p + 7), <<>>)} }
                   : r \in {rstr(data, pos)} } : TRUE

\* the build region and the tail, from pos on
ParseBuild(data, pos, fs, head) ==
    CHOOSE result \in
      { [head EXCEPT !.build_entries = b.entries,
                     !.trail_hex = Hex(Slice(data, b.pos, fs))]
        : b \in {parse_build_section(data, pos, fs)} } : TRUE

\* the sections, from pos on
ParseSections(data, pos, fs, head) ==
    IF ~ looks_like_section(data, pos, fs, head.layers) THEN ParseBuild(data, pos, fs, head)
    ELSE CHOOSE result \in
           { ParseBuild(data, sl.pos, fs,
                        [head EXCEPT !.sections = sl.sections,
                                     !.has_traditional_sections = TRUE])
             : sl \in {SectionLoop(data, pos, fs, head.layers, head.num_sections, <<>>)} } : TRUE

\* the normal layout, from the counts on (pos is after the rate byte)
ParseNormal(data, pos, fs, head) ==
    IF pos + 10 > fs THEN ParseResult("raised")
    ELSE CHOOSE result \in
           UNION { { ParseSections(data, cl.pos, fs,
                        [head EXCEPT !.num_clips = U16(data, pos),
                                     !.num_sections = U16(data, pos + 2),
                                     !.total_elements = U16(data, pos + 4),
                                     !.unk2 = U16(data, pos + 6),
                                     !.layers = ll.layers, !.clips = cl.clips])
                     : cl \in {ClipLoop(data, ll.pos, U16(data, pos), <<>>)} }
                   : ll \in {LayerLoop(data, pos + 10, U16(data, pos + 8), <<>>)} } : TRUE

\* the minimal layout, from sprite_start on
ParseMinimal(data, pos, sprite_start, fs, head) ==
    CHOOSE result \in
      { [head EXCEPT !.minimal = TRUE,
                     !.minimal_meta_hex = Hex(Slice(data, pos, sprite_start)),
                     !.minimal_sprites = l.sprites,
                     !.trail_hex = Hex(Slice(data, l.pos, fs))]
        : l \in {BareSpriteLoop(data, sprite_start, fs, <<>>)} } : TRUE

\* the header fields of the result, name being the animation name as rstr
\* gives it
ParseHead(data, name) ==
    [ParseResult("ok") EXCEPT
        !.magic = Slice(data, 0, 4), !.version = Word(data, 4),
        !.hf1 = U16(data, 8), !.hf2 = U16(data, 10),
        !.anim_name = name.s, !.frame_rate = data[name.p + 1]]

\* parse_canim(filepath): the result dict, with status "ok", "skipped"
\* (fewer than 20 bytes) or "raised" (an exception left the function)
parse_canim(data) ==
    IF Len(data) < 20 THEN ParseResult("skipped")
    ELSE IF \E i \in 1..4 : data[i] >= 128 THEN ParseResult("raised")
    ELSE CHOOSE result \in
           UNION { { IF ~ name.ok \/ name.p + 1 > Len(data) THEN ParseResult("raised")
                     ELSE IF sprite_start >= 0
                     THEN ParseMinimal(data, name.p + 1, sprite_start, Len(data),
                                       ParseHead(data, name))
                     ELSE ParseNormal(data, name.p + 1, Len(data), ParseHead(data, name))
                     : sprite_start \in {IF name.ok /\ U16(data, 8) = 0
                                         THEN MinimalSpriteStart(data, name.p + 1, Len(data))
                                         ELSE 0 - 1} }
                   : name \in {rstr(data, 12)} } : TRUE

-----------------------------------------------------------------------------
(* canim.py: export_canim_to_json, rebuild_canim_from_json *)

\* a sprite as json.load gives it back
JsonSprite(sp) ==
    [sp EXCEPT !.width = JsonFloat(sp.width), !.height = JsonFloat(sp.height),
               !.pivot_x = JsonFloat(sp.pivot_x), !.pivot_y = JsonFloat(sp.pivot_y)]

\* an element as json.load gives it back
JsonElement(el) ==
    [el EXCEPT !.ma = JsonFloat(el.ma), !.mb = JsonFloat(el.mb), !.mc = JsonFloat(el.mc),
               !.md = JsonFloat(el.md), !.tx = JsonFloat(el.tx), !.ty = JsonFloat(el.ty)]

\* export_canim_to_json: the document json.load reads back from the file it
\* writes, or NoJson when it raises (parse raised, or the file was skipped)
export_canim_to_json(data) ==
    CHOOSE json \in {
        IF result.status # "ok" THEN NoJson
        ELSE [format |-> "canim_v10",
              magic |-> result.magic, version |-> result.version,
              hf1 |-> result.hf1, hf2 |-> result.hf2,
              anim_name |-> result.anim_name, frame_rate |-> result.frame_rate,
              minimal |-> result.minimal,
              minimal_meta_hex |-> result.minimal_meta_hex,
              has_traditional_sections |-> result.has_traditional_sections,
              unk2 |-> result.unk2, num_clips |-> result.num_clips,
              num_sections |-> result.num_sections,
              total_elements |-> result.total_elements,
              layers |-> result.layers, clips |-> result.clips,
              sections |-> [i \in 1..Len(result.sections) |->
                              [result.sections[i] EXCEPT !.elements =
                                 [k \in 1..Len(result.sections[i].elements) |->
                                    JsonElement(result.sections[i].elements[k])]]],
              build_entries |-> [i \in 1..Len(result.build_entries) |->
                                   [result.build_entries[i] EXCEPT !.sprites =
                                      [k \in 1..Len(result.build_entries[i].sprites) |->
                                         JsonSprite(result.build_entries[i].sprites[k])]]],
              minimal_sprites |-> [k \in 1..Len(result.minimal_sprites) |->
                                     JsonSprite(result.minimal_sprites[k])],
              trail_hex |-> result.trail_hex]
        : result \in {parse_canim(data)} } : TRUE

\* the floats of a sprite as wf writes them
SpriteFloats(sp) == sp.width \o sp.height \o sp.pivot_x \o sp.pivot_y

\* the strings wstr is called with when a symbol is written from its fields
SymbolStrings(sym) ==
    <<sym.name>> \o [k \in 1..Len(sym.sprites) |->
                       IF sym.sprites[k].empty THEN <<>> ELSE sym.sprites[k].name]

\* _write_symbol_from_parsed(buf, sym): the bytes appended
write_symbol_from_parsed(sym) ==
    wstr(sym.name) \o <<sym.frame_rate % 256>> \o P16(sym.num_sprites)
        \o Concat([k \in 1..Len(sym.sprites) |->
              LET sp == sym.sprites[k]
              IN  P16(sp.frame) \o P16(sp.unk)
                    \o (IF sp.empty \/ sp.name = <<>> THEN P32(0) ELSE wstr(sp.name))
                    \o SpriteFloats(sp)])

\* the bytes one element is written as
ElementBytes(el) ==
    P16(el.index) \o P16(el.unk1) \o P16(el.layer_idx) \o P16(el.unk2)
        \o el.ma \o el.md \o el.mb \o el.mc \o el.tx \o el.ty
        \o P16(el.z_ord) \o <<el.type % 256>> \o el.color \o FromHex(el.pad)

\* the bytes one section is written as
SectionBytes(sec) ==
    wstr(sec.name) \o sec.unknown \o <<sec.facing % 256>>
        \o P16(sec.frame_count) \o P16(sec.element_count)
        \o Concat([k \in 1..Len(sec.elements) |-> ElementBytes(sec.elements[k])])

\* a build entry written from its fields whenever it is a simple symbol
BuildEntryBytes_fields_first(entry) ==
    IF entry.entry_type = "symbol" /\ ~ entry.composite
    THEN write_symbol_from_parsed(entry)
    ELSE FromHex(entry.raw_hex)

\* the bytes one build entry is written as: its raw span when it has one,
\* its fields when it is a simple symbol, nothing otherwise
BuildEntryBytes(entry) ==
    IF entry.raw_hex # <<>> THEN FromHex(entry.raw_hex)
    ELSE IF entry.entry_type = "symbol" /\ ~ entry.composite
    THEN write_symbol_from_parsed(entry)
    ELSE <<>>

\* the strings rebuild passes to wstr
RebuildStrings(j) ==
    <<j.anim_name>>
      \o (IF j.minimal THEN [k \in 1..Len(j.minimal_sprites) |-> j.minimal_sprites[k].name]
          ELSE j.layers
               \o [k \in 1..Len(j.clips) |-> j.clips[k].name]
               \o (IF j.has_traditional_sections
                   THEN [k \in 1..Len(j.sections) |-> j.sections[k].name] ELSE <<>>)
               \o Concat([k \in 1..Len(j.build_entries) |->
                     IF j.build_entries[k].raw_hex = <<>>
                        /\ j.build_entries[k].entry_type = "symbol"
                        /\ ~ j.build_entries[k].composite
                     THEN SymbolStrings(j.build_entries[k]) ELSE <<>>]))

Raised == [ok |-> FALSE, out |-> <<>>]

\* a rebuild that does not look at the format tag
rebuild_canim_from_json_any_format(j) ==
    IF \E i \in 1..Len(RebuildStrings(j)) : ~ Encodable(RebuildStrings(j)[i])
    THEN Raised
    ELSE LET head == j.magic \o j.version \o P16(j.hf1) \o P16(j.hf2)
                       \o wstr(j.anim_name) \o <<j.frame_rate % 256>>
         IN  IF j.minimal
             THEN [ok |-> TRUE,
                   out |-> head \o FromHex(j.minimal_meta_hex)
                             \o Concat([k \in 1..Len(j.minimal_sprites) |->
                                   wstr(j.minimal_sprites[k].name)
                                     \o SpriteFloats(j.minimal_sprites[k])])
                             \o FromHex(j.trail_hex)]
             ELSE [ok |-> TRUE,
                   out |-> head \o P16(j.num_clips) \o P16(j.num_sections)
                             \o P16(j.total_elements) \o P16(j.unk2)
                             \o P16(Len(j.layers))
                             \o Concat([k \in 1..Len(j.layers) |-> wstr(j.layers[k])])
                             \o Concat([k \in 1..Len(j.clips) |->
                                   wstr(j.clips[k].name) \o P16(j.clips[k].value)])
                             \o (IF j.has_traditional_sections
                                 THEN Concat([k \in 1..Len(j.sections) |->
                                                SectionBytes(j.sections[k])])
                                 ELSE <<>>)
                             \o Concat([k \in 1..Len(j.build_entries) |->
                                   BuildEntryBytes(j.build_entries[k])])
                             \o FromHex(j.trail_hex)]

\* rebuild_canim_from_json: [ok, out]; ok = FALSE when it raises (no file is
\* written), out the bytes of the file it writes
rebuild_canim_from_json(j) ==
    IF j.format # "canim_v10" THEN Raised
    ELSE IF \E i \in 1..Len(RebuildStrings(j)) : ~ Encodable(RebuildStrings(j)[i])
    THEN Raised
    ELSE LET head == j.magic \o j.version \o P16(j.hf1) \o P16(j.hf2)
                       \o wstr(j.anim_name) \o <<j.frame_rate % 256>>
         IN  IF j.minimal
             THEN [ok |-> TRUE,
                   out |-> head \o FromHex(j.minimal_meta_hex)
                             \o Concat([k \in 1..Len(j.minimal_sprites) |->
                                   wstr(j.minimal_sprites[k].name)
                                     \o SpriteFloats(j.minimal_sprites[k])])
                             \o FromHex(j.trail_hex)]
             ELSE [ok |-> TRUE,
                   out |-> head \o P16(j.num_clips) \o P16(j.num_sections)
                             \o P16(j.total_elements) \o P16(j.unk2)
                             \o P16(Len(j.layers))
                             \o Concat([k \in 1..Len(j.layers) |-> wstr(j.layers[k])])
                             \o Concat([k \in 1..Len(j.clips) |->
                                   wstr(j.clips[k].name) \o P16(j.clips[k].value)])
                             \o (IF j.has_traditional_sections
                                 THEN Concat([k \in 1..Len(j.sections) |->
                                                SectionBytes(j.sections[k])])
                                 ELSE <<>>)
                             \o Concat([k \in 1..Len(j.build_entries) |->
                                   BuildEntryBytes(j.build_entries[k])])
                             \o FromHex(j.trail_hex)]

-----------------------------------------------------------------------------
(* Animation-container input files: a header, a layout prefix (counts,     *)
(* layer, clip and section tables, or the minimal layout) and a build       *)
(* region made of up to MaxBuild pieces.                                     *)

\* pieces per generated build region
MaxBuild == 3

\* a length-prefixed string
Str(s) == P32(Len(s)) \o s

\* magic "CANM", version 10, flags, animation name, rate 24
AnimHeader(hf1, name) ==
    <<67, 65, 78, 77>> \o P32(10) \o P16(hf1) \o P16(0) \o Str(name) \o <<24>>

\* a sprite record: frame, unk, name (<<>> for the zero-length placeholder),
\* width, height and a pivot of (0, 0)
SpriteRec(frame, name, w, h) ==
    P16(frame) \o P16(0) \o Str(name) \o w \o h \o FInt(0) \o FInt(0)

\* simple symbols "s" and "t" of one sprite each
SymA == Str(<<115>>) \o <<24>> \o P16(1) \o SpriteRec(0, <<97, 45, 49>>, FInt(10), FInt(10))
SymB == Str(<<116>>) \o <<12>> \o P16(1) \o SpriteRec(1, <<98>>, FInt(4), FInt(8))
\* symbol "c" with count 0 and one sub-symbol name "sub"
SymC == Str(<<99>>) \o <<24>> \o P16(0) \o P16(1) \o P16(0) \o Str(<<115, 117, 98>>)
\* symbol "e" whose sprite has the zero-length name and width 6000
SymE == Str(<<101>>) \o <<24>> \o P16(1) \o SpriteRec(0, <<>>, FInt(6000), FInt(10))
\* symbol "w" whose sprite is named and has width 6000
SymW == Str(<<119>>) \o <<24>> \o P16(1) \o SpriteRec(0, <<97>>, FInt(6000), FInt(10))
\* symbol "n" whose sprite has the zero-length name and a NaN height
SymN == Str(<<110>>) \o <<24>> \o P16(1) \o SpriteRec(0, <<>>, FInt(10), <<1, 0, 128, 127>>)
\* an unrecognised region, and a build timeline block "Slot0/a"
JunkFF  == <<255, 255, 255, 255, 255, 255>>
JunkStr == Str(<<83, 108, 111, 116, 48, 47, 97>>) \o <<1, 2, 3>>

\* symbol "h" declaring 5120 sprites; symbol "d" declaring 2 sprites of which
\* the second is named and has width 6000; symbol "z" declaring no sprite
SymH == Str(<<104>>) \o <<24>> \o P16(5120)
SymD == Str(<<100>>) \o <<24>> \o P16(2) \o SpriteRec(0, <<97, 45, 49>>, FInt(10), FInt(10))
                                        \o SpriteRec(1, <<97>>, FInt(6000), FInt(10))
SymZ == Str(<<122>>) \o <<24>> \o P16(0)

BuildPool == {SymA, SymB, SymC, JunkFF, JunkStr}
ExtraPool == {SymE, SymW, SymN}

RECURSIVE BuildSeqs(_)
\* the sequences of at most n pieces of BuildPool
BuildSeqs(n) ==
    IF n = 0 THEN {<<>>}
    ELSE BuildSeqs(n - 1)
         \cup {Append(bs, b) : bs \in {x \in BuildSeqs(n - 1) : Len(x) = n - 1},
                               b \in BuildPool}

BuildRegions ==
    {Concat(bs) : bs \in BuildSeqs(MaxBuild)}
    \cup {x : x \in ExtraPool} \cup {SymA \o x : x \in ExtraPool}
    \cup {x \o SymB : x \in ExtraPool}
    \cup {SymH \o SymB, SymD \o SymB, SymD, JunkFF \o SymZ, SymA \o SymZ, SymZ \o <<0>>}

Counts(clips, sections, elements, unk2, layers) ==
    P16(clips) \o P16(sections) \o P16(elements) \o P16(unk2) \o P16(layers)

\* an element of 43 bytes whose first matrix float is ma
ElementRec(ma) ==
    P16(0) \o P16(0) \o P16(0) \o P16(0) \o ma \o FInt(1) \o FInt(0) \o FInt(0)
        \o FInt(3) \o FInt(0 - 2) \o P16(5) \o <<1, 255, 255, 255, 255>> \o <<0, 0, 0, 0>>

\* a section "f": unknown 0, facing 1, 1 frame, count elements declared
SectionRec(count) == Str(<<102>>) \o P32(0) \o <<1>> \o P16(1) \o P16(count)

LayerL == Str(<<76>>)

\* the layout prefixes that are followed by a build region
Prefixes ==
    { Counts(1, 0, 0, 0, 1) \o LayerL \o Str(<<99>>) \o P16(7),
      Counts(0, 0, 0, 0, 2) \o LayerL,
      Counts(0, 1, 1, 0, 1) \o LayerL \o SectionRec(1) \o ElementRec(FInt(1)),
      Counts(0, 1, 2, 0, 1) \o LayerL \o SectionRec(2) \o ElementRec(FInt(1)),
      Counts(0, 1, 1, 0, 1) \o LayerL \o SectionRec(1) \o ElementRec(<<1, 0, 128, 255>>),
      Counts(1, 0, 0, 0, 0) \o Str(<<99>>) \o <<7>> }

NameX == <<120>>
NameNonAscii == <<233>>

\* minimal-layout bodies: a metadata blob, bare sprites, a tail
BareSprite(name, w, h) == Str(name) \o w \o h \o FInt(0) \o FInt(0)
MinimalBodies ==
    { <<>> \o BareSprite(<<97, 45, 49>>, FInt(10), FInt(10)),
      <<0, 0>> \o BareSprite(<<97, 45, 49>>, FInt(10), FInt(10))
               \o BareSprite(<<97, 45, 50>>, FInt(6000), FInt(10)),
      <<0, 0>> \o BareSprite(<<97, 45, 49>>, FInt(10), FInt(10))
               \o BareSprite(<<98>>, FInt(2), FInt(2)) \o <<1, 2, 3>>,
      Str(<<120, 45, 121>>) \o <<1, 2>> \o BareSprite(<<97, 45, 49>>, FInt(10), FInt(10)),
      Str(<<120, 45, 121>>) \o FInt(6000) \o FInt(10) \o FInt(0) \o FInt(0)
               \o BareSprite(<<97, 45, 49>>, FInt(10), FInt(10)) }

AnimInputs ==
    {AnimHeader(1, NameX) \o Counts(0, 0, 0, 0, 0) \o b : b \in BuildRegions}
    \cup {AnimHeader(1, NameX) \o p \o Concat(bs) : p \in Prefixes, bs \in BuildSeqs(1)}
    \cup {AnimHeader(0, n) \o m : n \in {NameX, NameNonAscii}, m \in MinimalBodies}
    \cup {AnimHeader(0, NameX) \o Counts(0, 0, 0, 0, 0) \o Concat(bs) : bs \in BuildSeqs(1)}
    \cup {AnimHeader(1, NameNonAscii) \o Counts(0, 0, 0, 0, 0) \o SymA}
    \cup {SubSeq(AnimHeader(1, NameX) \o Counts(0, 0, 0, 0, 0), 1, k) : k \in {10, 19, 21}}
    \cup {<<200>> \o SubSeq(AnimHeader(1, NameX) \o Counts(0, 0, 0, 0, 0) \o SymA, 2, 40)}

-----------------------------------------------------------------------------
(* The animation-container tool as a state machine: export a file to JSON, *)
(* optionally edit the JSON, rebuild the file from it.                      *)

InitAnim ==
    /\ afile \in AnimInputs
    /\ ajson = NoJson
    /\ aout = <<>>
    /\ apc = "start"
    /\ nedits = 0
    /\ MetaIdle /\ BatchIdle

\* export_canim_to_json(canim_path)
Export ==
    /\ apc = "start"
    /\ \E json \in {export_canim_to_json(afile)} :
          /\ ajson' = json
          /\ apc' = IF json.format = "none" THEN "export_failed" ELSE "exported"
    /\ UNCHANGED <<afile, aout, nedits, metavars, batchvars>>

\* the user deletes the "_raw_hex" text of one build entry of the JSON file
ClearRawHex ==
    /\ apc = "exported"
    /\ nedits < MaxEdits
    /\ \E k \in 1..Len(ajson.build_entries) :
          /\ ajson.build_entries[k].raw_hex # <<>>
          /\ ajson' = [ajson EXCEPT !.build_entries[k].raw_hex = <<>>]
    /\ nedits' = nedits + 1
    /\ UNCHANGED <<afile, aout, apc, metavars, batchvars>>

\* rebuild_canim_from_json(json_path)
Rebuild ==
    /\ apc = "exported"
    /\ \E r \in {rebuild_canim_from_json(ajson)} :
          /\ aout' = IF r.ok THEN r.out ELSE aout
          /\ apc' = IF r.ok THEN "rebuilt" ELSE "rebuild_failed"
    /\ UNCHANGED <<afile, ajson, nedits, metavars, batchvars>>

\* the user rewrites the fields of one build entry of the JSON file and
\* leaves its "_raw_hex" as it is
EditEntryFields ==
    /\ apc = "exported"
    /\ nedits < MaxEdits
    /\ \E k \in 1..Len(ajson.build_entries) :
          /\ ajson.build_entries[k].raw_hex # <<>>
          /\ ajson' = [ajson EXCEPT !.build_entries[k].name = <<113>>,
                                    !.build_entries[k].frame_rate = 1,
                                    !.build_entries[k].sprites = <<>>,
                                    !.build_entries[k].sub_symbols = <<>>]
    /\ nedits' = nedits + 1
    /\ UNCHANGED <<afile, aout, apc, metavars, batchvars>>

\* the user exchanges two neighbouring build entries of the JSON file
SwapEntries ==
    /\ apc = "exported"
    /\ nedits < MaxEdits
    /\ \E k \in 1..(Len(ajson.build_entries) - 1) :
          ajson' = [ajson EXCEPT !.build_entries[k] = ajson.build_entries[k + 1],
                                 !.build_entries[k + 1] = ajson.build_entries[k]]
    /\ nedits' = nedits + 1
    /\ UNCHANGED <<afile, aout, apc, metavars, batchvars>>

\* the user gives rebuild a JSON document of another kind: the "_format" of
\* the document is not "canim_v10"
OtherFormat ==
    /\ apc = "exported"
    /\ nedits < MaxEdits
    /\ ajson.format = "canim_v10"
    /\ ajson' = [ajson EXCEPT !.format = "canim_meta"]
    /\ nedits' = nedits + 1
    /\ UNCHANGED <<afile, aout, apc, metavars, batchvars>>

NextAnim == Export \/ ClearRawHex \/ EditEntryFields \/ SwapEntries \/ OtherFormat \/ Rebuild

SpecAnim == InitAnim /\ [][NextAnim]_vars

-----------------------------------------------------------------------------
(* Claims about the animation container (SpecAnim).                        *)

\* the JSON document is the one export wrote (no edit was made to it)
Unedited == nedits = 0

\* C2: every file parse_canim accepts is rebuilt from its exported JSON to
\* exactly the original bytes, in the minimal and in the normal layout,
\* also when a layer, clip, section or element loop stopped early.
C2_AnimRoundTrip ==
    (apc \in {"rebuilt", "rebuild_failed"} /\ Unedited)
        => (apc = "rebuilt" /\ aout = afile)

\* a build region of symbol "s", an unrecognised region, symbol "t"
CorruptedFile(junk) ==
    AnimHeader(1, NameX) \o Counts(0, 0, 0, 0, 0) \o SymA \o junk \o SymB

\* C5: with an unrecognised region between two well-formed symbols, the
\* build entries are the first symbol, one entry whose raw span is exactly
\* the unrecognised region, and the second symbol; nothing of the second
\* symbol is left in the file tail.
C5_Resynchronize ==
    \A junk \in {JunkFF, JunkStr} :
        (apc = "exported" /\ Unedited /\ afile = CorruptedFile(junk))
            => /\ Len(ajson.build_entries) = 3
               /\ ajson.build_entries[1].entry_type = "symbol"
               /\ ajson.build_entries[1].raw_hex = Hex(SymA)
               /\ ajson.build_entries[2].raw_hex = Hex(junk)
               /\ ajson.build_entries[3].entry_type = "symbol"
               /\ ajson.build_entries[3].raw_hex = Hex(SymB)
               /\ ajson.trail_hex = <<>>

\* a whole sprite record lies at pos: frame, unk, a printable or a
\* zero-length name, and sixteen bytes of floats; the value is the position
\* of the floats, or -1 when no record lies there
SpriteFloatsAt(d, pos) ==
    IF pos + 8 > Len(d) THEN 0 - 1
    ELSE IF empty_str_at(d, pos + 4)
    THEN (IF pos + 8 + 16 <= Len(d) THEN pos + 8 ELSE 0 - 1)
    ELSE IF valid_str(d, pos + 4) /\ rstr(d, pos + 4).p + 16 <= Len(d)
    THEN rstr(d, pos + 4).p
    ELSE 0 - 1

\* the floats at fp are not those of an acceptable sprite: width or height
\* outside [0, 5000], or one of the four non-finite or outside +-10000
SpriteOutOfRange(d, fp) ==
    \/ SizeOutOfRange(Word(d, fp), Word(d, fp + 4))
    \/ \E k \in 0..3 : ~ is_float_reasonable(Word(d, fp + 4 * k))

\* C6: try_parse_sprite returns None for every sprite record, named or with
\* the zero-length placeholder name, whose width or height is outside
\* [0, 5000] or whose floats are non-finite or outside [-10000, 10000].
C6_SpriteValidation ==
    \A pos \in 0..Len(afile) :
        (SpriteFloatsAt(afile, pos) >= 0
            /\ SpriteOutOfRange(afile, SpriteFloatsAt(afile, pos)))
            => ~ try_parse_sprite(afile, pos, Len(afile)).ok

\* the position after the rate byte of the header
AfterRate(d) == rstr(d, 12).p + 1

\* the file takes the minimal path: hf1 is 0 and a first bare sprite is found
MinimalFile(d) ==
    /\ Len(d) >= 20
    /\ rstr(d, 12).ok
    /\ U16(d, 8) = 0
    /\ MinimalSpriteStart(d, AfterRate(d), Len(d)) >= 0

\* C7: on the minimal path the document is one symbol of bare sprites under
\* the animation name and rate, without build entries, the bytes between the
\* rate byte and the first sprite kept as the metadata blob, the bytes from
\* the first failing sprite on as the tail, and the rebuild is byte-identical.
C7_MinimalLayout ==
    (apc \in {"exported", "rebuilt", "rebuild_failed"} /\ Unedited /\ MinimalFile(afile))
        => /\ ajson.minimal
           /\ ajson.build_entries = <<>>
           /\ ajson.frame_rate = afile[AfterRate(afile)]
           /\ ajson.minimal_meta_hex =
                 Hex(Slice(afile, AfterRate(afile),
                           MinimalSpriteStart(afile, AfterRate(afile), Len(afile))))
           /\ \A k \in 1..Len(ajson.minimal_sprites) :
                 ~ SizeOutOfRange(ajson.minimal_sprites[k].width,
                                  ajson.minimal_sprites[k].height)
           /\ apc # "exported" => (apc = "rebuilt" /\ aout = afile)

\* the entry can only be written from its raw span: a composite symbol, an
\* opaque symbol or a build timeline block
NeedsRawSpan(e) == e.composite \/ e.entry_type = "build_section"

\* C10: rebuild fails, and writes no file, whenever a build entry that needs
\* its raw span has none; such an entry is never silently left out.
C10_MissingRawSpan ==
    ( /\ apc \in {"rebuilt", "rebuild_failed"}
      /\ \E k \in 1..Len(ajson.build_entries) :
            NeedsRawSpan(ajson.build_entries[k]) /\ ajson.build_entries[k].raw_hex = <<>> )
        => (apc = "rebuild_failed" /\ aout = <<>>)

-----------------------------------------------------------------------------
(* The batch commands as a state machine: batch_export and batch_rebuild   *)
(* of canim.py and batch_analyze of canim_meta.py walk the sorted listing  *)
(* of a folder, one file per step, and tally the outcomes.                 *)

MaxFiles == 5

\* the file names of the folder; sorted() orders them as the numbers are
FileNames == 1..MaxFiles

RECURSIVE Sorted(_)
\* sorted(names)
Sorted(S) ==
    IF S = {} THEN <<>>
    ELSE LET m == CHOOSE x \in S : \A y \in S : x <= y
         IN  <<m>> \o Sorted(S \ {m})

\* a well-formed animation file and the same file cut off inside the header
\* (10 bytes) and right after the header (21 bytes)
GoodAnim == AnimHeader(1, NameX) \o Counts(0, 0, 0, 0, 0) \o SymA
TruncatedAnim == SubSeq(GoodAnim, 1, 10)
ExportFolderFiles == {GoodAnim, TruncatedAnim, SubSeq(GoodAnim, 1, 21)}

\* JSON documents: of the well-formed file, of a minimal file, and of a file
\* whose animation name is not ASCII
RebuildFolderFiles ==
    { export_canim_to_json(GoodAnim),
      export_canim_to_json(AnimHeader(0, NameX)
                              \o BareSprite(<<97, 45, 49>>, FInt(10), FInt(10))),
      export_canim_to_json(AnimHeader(1, NameNonAscii) \o Counts(0, 0, 0, 0, 0) \o SymA) }

\* a well-formed event file, the same file cut off inside the header
\* (8 bytes), and a file with a byte between header and first chunk
GoodMeta == MetaHeader(1) \o ChunkHead(MHIT, 1) \o HitPhaseCanon \o P32(1) \o EvHashW
TruncatedMeta == SubSeq(GoodMeta, 1, 8)
AnalyzeFolderFiles ==
    {GoodMeta, TruncatedMeta, MetaHeader(1) \o <<7>> \o MACT \o AnimHashW \o EvHashW}

FolderFiles(tool) ==
    IF tool = "export" THEN ExportFolderFiles
    ELSE IF tool = "rebuild" THEN RebuildFolderFiles
    ELSE AnalyzeFolderFiles

InitBatch ==
    /\ btool \in {"export", "rebuild", "analyze"}
    /\ bfolder \in [FileNames -> FolderFiles(btool)]
    /\ bdone = <<>>
    /\ bcount = NoCount
    /\ nedits = 0
    /\ MetaIdle /\ AnimIdle

\* the file the loop is at
NextFile == Sorted(DOMAIN bfolder)[Len(bdone) + 1]

\* one pass of the loop of batch_export
ExportStep ==
    /\ btool = "export"
    /\ Len(bdone) < Cardinality(DOMAIN bfolder)
    /\ \E json \in {export_canim_to_json(bfolder[NextFile])} :
          bcount' = IF json = NoJson THEN [bcount EXCEPT !.errors = @ + 1]
                    ELSE [bcount EXCEPT !.success = @ + 1]
    /\ bdone' = Append(bdone, NextFile)
    /\ UNCHANGED <<btool, bfolder, nedits, metavars, animvars>>

\* one pass of the loop of batch_rebuild
RebuildStep ==
    /\ btool = "rebuild"
    /\ Len(bdone) < Cardinality(DOMAIN bfolder)
    /\ \E r \in {rebuild_canim_from_json(bfolder[NextFile])} :
          bcount' = IF r.ok THEN [bcount EXCEPT !.success = @ + 1]
                    ELSE [bcount EXCEPT !.errors = @ + 1]
    /\ bdone' = Append(bdone, NextFile)
    /\ UNCHANGED <<btool, bfolder, nedits, metavars, animvars>>

\* verify_silent(meta, original_path) for the meta loaded from data
verify_silent(data) == rebuild_bytes(CAnimMeta_load(data)) = data

\* one pass of the loop of batch_analyze, with the tally its report makes of
\* the result: skipped, ok, or not ok without an error (a warning)
AnalyzeStep ==
    /\ btool = "analyze"
    /\ Len(bdone) < Cardinality(DOMAIN bfolder)
    /\ bcount' = IF Len(bfolder[NextFile]) < 12 THEN [bcount EXCEPT !.skipped = @ + 1]
                 ELSE IF verify_silent(bfolder[NextFile])
                 THEN [bcount EXCEPT !.success = @ + 1]
                 ELSE [bcount EXCEPT !.warnings = @ + 1]
    /\ bdone' = Append(bdone, NextFile)
    /\ UNCHANGED <<btool, bfolder, nedits, metavars, animvars>>

NextBatch == ExportStep \/ RebuildStep \/ AnalyzeStep

SpecBatch == InitBatch /\ [][NextBatch]_vars

-----------------------------------------------------------------------------
(* Claims about the batch commands (SpecBatch).                            *)

\* the batch run has gone through the whole listing
BatchFinished == btool # "idle" /\ Len(bdone) = Cardinality(DOMAIN bfolder)

\* the folder holds one file cut off inside its header and, for the rest,
\* well-formed files
OneTruncated ==
    /\ Cardinality({n \in DOMAIN bfolder : bfolder[n] \in {TruncatedAnim, TruncatedMeta}}) = 1
    /\ \A n \in DOMAIN bfolder : bfolder[n] \in {TruncatedAnim, TruncatedMeta, GoodAnim, GoodMeta}

\* C9: a batch run takes every file once, in sorted order; at its end
\* successes + errors is the number of files, and a folder of 5 files of
\* which one is truncated gives 4 successes and 1 error.
C9_BatchPartialFailure ==
    btool # "idle" =>
        /\ bdone = SubSeq(Sorted(DOMAIN bfolder), 1, Len(bdone))
        /\ BatchFinished => bcount.success + bcount.errors = Cardinality(DOMAIN bfolder)
        /\ (BatchFinished /\ OneTruncated /\ Cardinality(DOMAIN bfolder) = 5)
              => (bcount.success = 4 /\ bcount.errors = 1)

-----------------------------------------------------------------------------
(* canim_meta.py: the other edit commands.  dx, dy and the times of the    *)
(* commands are given in fixed point (units of 1/FxUnit).                   *)

\* Phase.move(dx, dy)
Phase_move(ph, dx, dy) ==
    [ph EXCEPT !.minX = FPack(Fx(ph.minX) + dx), !.maxX = FPack(Fx(ph.maxX) + dx),
               !.minY = FPack(Fx(ph.minY) + dy), !.maxY = FPack(Fx(ph.maxY) + dy),
               !.raw_floats =
                  IF ph.has_raw
                  THEN [i \in 1..Len(ph.raw_floats) |->
                          FPack(Fx(ph.raw_floats[i]) + (IF i % 2 = 1 THEN dx ELSE dy))]
                  ELSE ph.raw_floats]

\* MCOLEntry.move(dx, dy), through CollisionPhase.move and
\* CollisionSegment.move
MCOLEntry_move(e, dx, dy) ==
    LET CollisionSegment_move(s) ==
            [x1 |-> FPack(Fx(s.x1) + dx), y1 |-> FPack(Fx(s.y1) + dy),
             x2 |-> FPack(Fx(s.x2) + dx), y2 |-> FPack(Fx(s.y2) + dy)]
        CollisionPhase_move(ph) ==
            [ph EXCEPT !.segments =
                [i \in 1..Len(ph.segments) |-> CollisionSegment_move(ph.segments[i])]]
    IN  [e EXCEPT !.phases =
            [i \in 1..Len(e.phases) |-> CollisionPhase_move(e.phases[i])]]

\* cmd_move(meta, [entry, dx, dy]): the document after the command
cmd_move(m, entry, dx, dy) ==
    LET i == PyIndex(Len(m.chunks), entry - 1)
    IN  IF i = 0 THEN m
        ELSE LET c == m.chunks[i]
             IN  IF c.kind = "MHIT"
                 THEN [m EXCEPT !.chunks[i].phases =
                         [k \in 1..Len(c.phases) |-> Phase_move(c.phases[k], dx, dy)]]
                 ELSE IF c.kind = "MCOL"
                 THEN [m EXCEPT !.chunks[i] = MCOLEntry_move(c, dx, dy)]
                 ELSE m

\* a time command that also rewrites the two time fields inside the bytes of
\* a raw chunk
cmd_time_any_chunk(m, entry, start, end) ==
    LET i == PyIndex(Len(m.chunks), entry - 1)
    IN  IF i = 0 THEN m
        ELSE LET c == m.chunks[i]
             IN  IF c.kind \in {"MHIT", "MCOL"}
                 THEN [m EXCEPT !.chunks[i].start_time = FPack(start),
                                !.chunks[i].end_time = FPack(end)]
                 ELSE [m EXCEPT !.chunks[i].raw =
                         [k \in 1..Len(c.raw) |->
                            IF k \in 13..16 THEN FPack(start)[k - 12]
                            ELSE IF k \in 17..20 THEN FPack(end)[k - 16]
                            ELSE c.raw[k]]]

\* cmd_time(meta, [entry, start, end]): the document after the command
cmd_time(m, entry, start, end) ==
    LET i == PyIndex(Len(m.chunks), entry - 1)
    IN  IF i = 0 THEN m
        ELSE LET c == m.chunks[i]
             IN  IF c.kind \in {"MHIT", "MCOL"}
                 THEN [m EXCEPT !.chunks[i].start_time = FPack(start),
                                !.chunks[i].end_time = FPack(end)]
                 ELSE m

\* cmd_bbox(meta, [entry, phase, x1, y1, x2, y2]): the document after the
\* command; an IndexError (entry or phase out of range) leaves it as it was
cmd_bbox(m, entry, phase, x1, y1, x2, y2) ==
    LET i == PyIndex(Len(m.chunks), entry - 1)
    IN  IF i = 0 THEN m
        ELSE IF m.chunks[i].kind # "MHIT" THEN m
        ELSE LET pi == PyIndex(Len(m.chunks[i].phases), phase - 1)
                 ph == m.chunks[i].phases[pi]
             IN  IF pi = 0 THEN m
                 ELSE [m EXCEPT !.chunks[i].phases[pi] =
                         [ph EXCEPT !.minX = FPack(x1), !.minY = FPack(y1),
                                    !.maxX = FPack(x2), !.maxY = FPack(y2),
                                    !.raw_floats = <<>>, !.has_raw = FALSE,
                                    !.bbox_type = IF ph.has_raw THEN 4 ELSE ph.bbox_type]]

\* the copy cmd_dup makes of a chunk: a phase with an empty list of raw
\* floats is copied without it
DupChunk(c) ==
    IF c.kind = "MHIT"
    THEN [c EXCEPT !.phases =
            [k \in 1..Len(c.phases) |->
               [c.phases[k] EXCEPT !.has_raw = c.phases[k].has_raw
                                                  /\ c.phases[k].raw_floats # <<>>]]]
    ELSE IF c.kind = "MCOL" THEN c
    ELSE RawChunk(c.magic, c.raw)

\* cmd_dup(meta, [entry]): the document after the command
cmd_dup(m, entry) ==
    LET i == PyIndex(Len(m.chunks), entry - 1)
    IN  IF i = 0 THEN m
        ELSE [m EXCEPT !.chunks = Append(@, DupChunk(m.chunks[i]))]

\* cmd_del(meta, [entry]): the document after the command
cmd_del(m, entry) ==
    LET i == PyIndex(Len(m.chunks), entry - 1)
    IN  IF i = 0 THEN m
        ELSE [m EXCEPT !.chunks =
                [k \in 1..(Len(@) - 1) |-> IF k < i THEN @[k] ELSE @[k + 1]]]

\* the backup step of CAnimMeta.save overwriting an existing <path>.bak
CAnimMeta_save_backup_always(f, b) == [exists |-> TRUE, data |-> f]

\* the backup step of CAnimMeta.save: the <path>.bak file after it; the
\* target exists (it was loaded) and is copied only when no <path>.bak exists
CAnimMeta_save_backup(f, b) ==
    IF ~ b.exists THEN [exists |-> TRUE, data |-> f] ELSE b

\* cmd_verify: the bytes verify_roundtrip reads as the original
cmd_verify_original(f, b) == IF b.exists THEN b.data ELSE f

\* a save that writes the count read from the header
CAnimMeta_save_header_count(m) ==
    m.version \o m.anim_hash \o m.entry_count
        \o Concat([i \in 1..Len(m.chunks) |-> Chunk_to_bytes(m.chunks[i])])
        \o m.trailing_bytes

\* CAnimMeta.save: the bytes written
CAnimMeta_save(m) ==
    m.version \o m.anim_hash \o P32(Len(m.chunks))
        \o Concat([i \in 1..Len(m.chunks) |-> Chunk_to_bytes(m.chunks[i])])
        \o m.trailing_bytes

-----------------------------------------------------------------------------
(* canim_meta.py: export_json, import_json.  A hash is written as the text *)
(* "0x%08X" and read back with int(text, 16); the text is kept as its hex  *)
(* digits.  A float goes through json.dump and json.load.                   *)

\* f"0x{v:08X}": the eight hex digits of a word, most significant first
HexWord(w) ==
    << w[4] \div 16, w[4] % 16, w[3] \div 16, w[3] % 16,
       w[2] \div 16, w[2] % 16, w[1] \div 16, w[1] % 16 >>

\* struct.pack('<I', int(text, 16))
IntHex(h) ==
    << 16 * h[7] + h[8], 16 * h[5] + h[6], 16 * h[3] + h[4], 16 * h[1] + h[2] >>

\* the dict export_json makes of a chunk
JsonChunk(c) ==
    LET JsonHitPhase(ph) ==
            [phase_time |-> JsonFloat(ph.phase_time), bbox_type |-> ph.bbox_type,
             minX |-> JsonFloat(ph.minX), minY |-> JsonFloat(ph.minY),
             maxX |-> JsonFloat(ph.maxX), maxY |-> JsonFloat(ph.maxY),
             has_raw |-> ph.has_raw,
             raw_floats |-> [i \in 1..Len(ph.raw_floats) |-> JsonFloat(ph.raw_floats[i])]]
        JsonColPhase(ph) ==
            [phase_time |-> JsonFloat(ph.phase_time),
             segments |-> [i \in 1..Len(ph.segments) |->
                             [x1 |-> JsonFloat(ph.segments[i].x1),
                              y1 |-> JsonFloat(ph.segments[i].y1),
                              x2 |-> JsonFloat(ph.segments[i].x2),
                              y2 |-> JsonFloat(ph.segments[i].y2)]]]
    IN  IF c.kind = "MHIT"
        THEN [type |-> MHIT, parsed |-> TRUE,
              event_hash |-> HexWord(c.event_hash),
              start_time |-> JsonFloat(c.start_time), end_time |-> JsonFloat(c.end_time),
              element_id |-> c.element_id,
              phases |-> [i \in 1..Len(c.phases) |-> JsonHitPhase(c.phases[i])],
              ref_hashes |-> [i \in 1..Len(c.ref_hashes) |-> HexWord(c.ref_hashes[i])],
              footer_extra_hex |-> Hex(c.footer_extra)]
        ELSE IF c.kind = "MCOL"
        THEN [type |-> MCOL, parsed |-> TRUE,
              anim_hash |-> HexWord(c.anim_hash), event_hash |-> HexWord(c.event_hash),
              start_time |-> JsonFloat(c.start_time), end_time |-> JsonFloat(c.end_time),
              element_id |-> c.element_id, ref_count |-> c.ref_count,
              phases |-> [i \in 1..Len(c.phases) |-> JsonColPhase(c.phases[i])]]
        ELSE [type |-> c.magic, parsed |-> FALSE, raw_hex |-> Hex(c.raw)]

\* export_json(meta, filepath): the document json.load reads back
export_json(m) ==
    [format |-> "canim_meta", version |-> m.version, anim_hash |-> HexWord(m.anim_hash),
     trailing_hex |-> Hex(m.trailing_bytes),
     chunks |-> [i \in 1..Len(m.chunks) |-> JsonChunk(m.chunks[i])]]

\* the chunk import_json makes of a dict, anim_hash being the hash of the
\* container
ImportChunk(cd, anim_hash) ==
    IF cd.parsed /\ cd.type = MHIT
    THEN [kind |-> "MHIT", anim_hash |-> anim_hash,
          event_hash |-> IntHex(cd.event_hash),
          start_time |-> cd.start_time, end_time |-> cd.end_time,
          element_id |-> cd.element_id,
          phases |-> [i \in 1..Len(cd.phases) |->
                        [phase_time |-> cd.phases[i].phase_time,
                         bbox_type |-> cd.phases[i].bbox_type,
                         has_raw |-> cd.phases[i].has_raw,
                         raw_floats |-> cd.phases[i].raw_floats,
                         minX |-> cd.phases[i].minX, minY |-> cd.phases[i].minY,
                         maxX |-> cd.phases[i].maxX, maxY |-> cd.phases[i].maxY]],
          ref_hashes |-> [i \in 1..Len(cd.ref_hashes) |-> IntHex(cd.ref_hashes[i])],
          footer_extra |-> FromHex(cd.footer_extra_hex)]
    ELSE IF cd.parsed /\ cd.type = MCOL
    THEN [kind |-> "MCOL", anim_hash |-> IntHex(cd.anim_hash),
          event_hash |-> IntHex(cd.event_hash),
          start_time |-> cd.start_time, end_time |-> cd.end_time,
          element_id |-> cd.element_id,
          phases |-> [i \in 1..Len(cd.phases) |->
                        [phase_time |-> cd.phases[i].phase_time,
                         segments |-> cd.phases[i].segments]],
          ref_count |-> cd.ref_count]
    ELSE RawChunk(Slice(FromHex(cd.raw_hex), 0, 4), FromHex(cd.raw_hex))

\* import_json(meta, filepath): the document after the import of data
import_json(m, data) ==
    [version |-> data.version, anim_hash |-> IntHex(data.anim_hash),
     entry_count |-> P32(Len(data.chunks)),
     chunks |-> [i \in 1..Len(data.chunks) |->
                   ImportChunk(data.chunks[i], IntHex(data.anim_hash))],
     trailing_bytes |-> FromHex(data.trailing_hex)]

-----------------------------------------------------------------------------
(* The interactive editor of canim_meta.py as a state machine: load, then  *)
(* up to MaxCmds commands (time, bbox, scale, move, dup, del, save,        *)
(* export, import) on a small family of files.                             *)

MaxCmds == 3

OtherHashW == <<9, 9, 9, 9>>

\* hit chunks: canonical with one reference hash; 2-point phase with two
\* bytes after the footer; points in another order; a per-chunk anim hash
\* that is not the container's; a phase of 0 points; a start time that is a
\* NaN with a payload
EditHitCanon == ChunkHead(MHIT, 1) \o HitPhaseCanon \o P32(1) \o EvHashW
EditHit2     == ChunkHead(MHIT, 1) \o HitPhase2 \o P32(0) \o <<9, 9>>
EditHitOther == ChunkHead(MHIT, 1) \o HitPhaseOther \o P32(0)
EditHitHash  ==
    MHIT \o OtherHashW \o EvHashW \o FInt(0) \o FInt(1) \o P32(3) \o P32(1)
         \o HitPhaseCanon \o P32(0)
EditHit0     == ChunkHead(MHIT, 1) \o FInt(0) \o P32(0) \o P32(0)
EditHitNaN   ==
    MHIT \o AnimHashW \o EvHashW \o <<1, 0, 192, 127>> \o FInt(1) \o P32(3) \o P32(1)
         \o HitPhaseCanon \o P32(0)
\* collision chunks: two phases; a bad separator
EditCol    == ChunkHead(MCOL, 2) \o ColPhase1(0, 0, 10, 0, SeparatorZeros)
                                 \o ColPhase1(0, 10, 10, 10, SeparatorZeros) \o P32(0)
EditColBad == ChunkHead(MCOL, 1) \o ColPhase1(0, 0, 10, 0, <<0, 0, 1, 0, 0>>) \o P32(0)
\* an action chunk
EditAct == MACT \o AnimHashW \o EvHashW \o <<108, 117, 97>>

EditInputs ==
    { MetaHeader(1) \o EditHitCanon,
      MetaHeader(2) \o EditCol \o EditAct,
      MetaHeader(1) \o EditHitOther,
      MetaHeader(2) \o EditHit2 \o EditColBad,
      MetaHeader(1) \o EditHitHash,
      MetaHeader(1) \o EditHit0,
      MetaHeader(1) \o EditHitNaN,
      MetaHeader(3) \o EditAct \o <<7, 7>>,
      MetaHeader(0) \o <<1, 2, 3>>,
      SubSeq(MetaHeader(0), 1, 8) }

\* the arguments the commands are given, in fixed point where they are floats
TimeArgs  == {<<2 * FxUnit, 5 * FxUnit>>}
MoveArgs  == {<<1 * FxUnit, (0 - 2) * FxUnit>>}
BBoxArgs  == {<<1 * FxUnit, 2 * FxUnit, 30 * FxUnit, 40 * FxUnit>>}
PhaseArgs == {1, 2}
EditFactors == {2}

\* a backup left by an earlier session
OldBak == [exists |-> TRUE, data |-> MetaHeader(0)]

\* the <path>.bak files an editing session may start with: none, or, for the
\* first input file, one left by an earlier session
BakInputs(f) ==
    IF f = MetaHeader(1) \o EditHitCanon THEN {NoBak, OldBak} ELSE {NoBak}

InitEdit ==
    /\ file \in EditInputs
    /\ meta = CAnimMeta_init
    /\ mpc = "start"
    /\ lastop = NoOp
    /\ mjson = NoJson
    /\ bak \in BakInputs(file)
    /\ nedits = 0
    /\ AnimIdle /\ BatchIdle

\* what an edit command leaves as it is
EditFrame == UNCHANGED <<file, mpc, mjson, bak, animvars, batchvars>>

\* the record of a command given to entry, on the document as it is now
Op(cmd, entry) ==
    [cmd |-> cmd, entry |-> entry, index |-> PyIndex(Len(meta.chunks), entry - 1),
     before |-> meta]

\* the coordinates of the addressed chunk are exact in fixed point
ExactEntry(entry) ==
    LET i == PyIndex(Len(meta.chunks), entry - 1)
    IN  i # 0 => ExactCoords(meta.chunks[i])

CanEdit == mpc = "loaded" /\ nedits < MaxCmds

\* the command "time <entry> <start> <end>"
Time ==
    /\ CanEdit
    /\ \E entry \in EntryArgs(meta), t \in TimeArgs :
          /\ meta' = cmd_time(meta, entry, t[1], t[2])
          /\ lastop' = Op("time", entry)
    /\ nedits' = nedits + 1
    /\ EditFrame

\* the command "bbox <entry> <phase> <x1> <y1> <x2> <y2>"
BBox ==
    /\ CanEdit
    /\ \E entry \in EntryArgs(meta), phase \in PhaseArgs, b \in BBoxArgs :
          /\ meta' = cmd_bbox(meta, entry, phase, b[1], b[2], b[3], b[4])
          /\ lastop' = Op("bbox", entry)
    /\ nedits' = nedits + 1
    /\ EditFrame

\* the command "scale <entry> <factor>"
ScaleEdit ==
    /\ CanEdit
    /\ \E entry \in EntryArgs(meta), factor \in EditFactors :
          /\ ExactEntry(entry)
          /\ meta' = cmd_scale(meta, entry, factor)
          /\ lastop' = Op("scale", entry)
    /\ nedits' = nedits + 1
    /\ EditFrame

\* the command "move <entry> <dx> <dy>"
Move ==
    /\ CanEdit
    /\ \E entry \in EntryArgs(meta), d \in MoveArgs :
          /\ ExactEntry(entry)
          /\ meta' = cmd_move(meta, entry, d[1], d[2])
          /\ lastop' = Op("move", entry)
    /\ nedits' = nedits + 1
    /\ EditFrame

\* the command "dup <entry>"
Dup ==
    /\ CanEdit
    /\ \E entry \in EntryArgs(meta) :
          /\ meta' = cmd_dup(meta, entry)
          /\ lastop' = Op("dup", entry)
    /\ nedits' = nedits + 1
    /\ EditFrame

\* the command "del <entry>"
Del ==
    /\ CanEdit
    /\ \E entry \in EntryArgs(meta) :
          /\ meta' = cmd_del(meta, entry)
          /\ lastop' = Op("del", entry)
    /\ nedits' = nedits + 1
    /\ EditFrame

\* the command "save": the file is copied to <path>.bak when there is no
\* such file yet, then the document is written over the file
Save ==
    /\ CanEdit
    /\ bak' = CAnimMeta_save_backup(file, bak)
    /\ file' = CAnimMeta_save(meta)
    /\ lastop' = [cmd |-> "save", before |-> meta, history |-> lastop.cmd]
    /\ nedits' = nedits + 1
    /\ UNCHANGED <<meta, mpc, mjson, animvars, batchvars>>

\* the command "verify": the rebuilt bytes are compared with <path>.bak
\* when it exists, with the file otherwise
Verify ==
    /\ CanEdit
    /\ lastop' = [cmd |-> "verify", before |-> meta,
                  against |-> cmd_verify_original(file, bak),
                  match |-> rebuild_bytes(meta) = cmd_verify_original(file, bak)]
    /\ nedits' = nedits + 1
    /\ UNCHANGED <<file, meta, mpc, mjson, bak, animvars, batchvars>>

\* the command "export"
ExportJson ==
    /\ CanEdit
    /\ mjson' = export_json(meta)
    /\ lastop' = [cmd |-> "export", before |-> meta]
    /\ nedits' = nedits + 1
    /\ UNCHANGED <<file, meta, mpc, bak, animvars, batchvars>>

\* the command "import <filepath.json>", of the document exported before;
\* fresh: nothing was done to the document since it was exported
ImportJson ==
    /\ CanEdit
    /\ mjson # NoJson
    /\ meta' = import_json(meta, mjson)
    /\ lastop' = [cmd |-> "import", before |-> meta, fresh |-> lastop.cmd = "export"]
    /\ nedits' = nedits + 1
    /\ EditFrame

NextEdit ==
    Load \/ Time \/ BBox \/ ScaleEdit \/ Move \/ Dup \/ Del \/ Save
         \/ Verify \/ ExportJson \/ ImportJson

SpecEdit == InitEdit /\ [][NextEdit]_vars

-----------------------------------------------------------------------------
\* two documents with the same version, container anim hash, tail and chunks
SameDocument(a, b) ==
    /\ a.version = b.version
    /\ a.anim_hash = b.anim_hash
    /\ a.trailing_bytes = b.trailing_bytes
    /\ a.chunks = b.chunks

\* import has just read back the document export wrote
Reimported == mpc = "loaded" /\ lastop.cmd = "import" /\ lastop.fresh

\* C11: exporting a document to its JSON form and importing that JSON again
\* yields a document structurally equal to the exported one (version,
\* container anim hash, tail, the chunks in order with every field), and
\* hence the same bytes when it is saved.
C11_InterchangeIdempotent ==
    Reimported =>
        /\ SameDocument(meta, lastop.before)
        /\ CAnimMeta_save(meta) = CAnimMeta_save(lastop.before)

-----------------------------------------------------------------------------
\* the last command was addressed to a chunk that is held as a raw block
OnOpaque ==
    /\ mpc = "loaded"
    /\ lastop.cmd \in {"time", "bbox", "scale", "move", "dup", "del"}
    /\ lastop.index # 0
    /\ lastop.before.chunks[lastop.index].kind = "Raw"

\* C12: a time, scale, move or bbox command addressed to an opaque chunk
\* leaves the whole document unchanged; dup appends a copy of the raw block as
\* a whole and del removes the block as a whole, every other chunk staying as
\* it was.
C12_OpaqueNotEditable ==
    OnOpaque =>
        LET old == lastop.before
            i == lastop.index
            n == Len(old.chunks)
        IN  /\ lastop.cmd \in {"time", "bbox", "scale", "move"} => meta = old
            /\ lastop.cmd = "dup" =>
                  /\ Len(meta.chunks) = n + 1
                  /\ \A k \in 1..n : meta.chunks[k] = old.chunks[k]
                  /\ meta.chunks[n + 1].kind = "Raw"
                  /\ meta.chunks[n + 1].raw = old.chunks[i].raw
            /\ lastop.cmd = "del" =>
                  /\ Len(meta.chunks) = n - 1
                  /\ \A k \in 1..(n - 1) :
                        meta.chunks[k] = old.chunks[IF k < i THEN k ELSE k + 1]
            /\ meta.version = old.version /\ meta.anim_hash = old.anim_hash
            /\ meta.trailing_bytes = old.trailing_bytes

\* a time command was given to an opaque chunk long enough to hold both times
C12_Witness ==
    /\ OnOpaque
    /\ lastop.cmd = "time"
    /\ Len(lastop.before.chunks[lastop.index].raw) >= 20

-----------------------------------------------------------------------------
\* the step is a save command
SaveStep == lastop'.cmd = "save" /\ nedits' # nedits

\* C13: whatever dup, del and import commands came after the load, the count
\* that save writes at offset 8 is the number of chunks it writes (counted as
\* the chunk markers of the written file and as the chunks of the document),
\* and the version and the anim hash are written as they were read.
C13_HeaderCount ==
    [][ SaveStep =>
          /\ Len(file') >= 12
          /\ Word(file', 8) = P32(Cardinality(MarkerSet(file')))
          /\ Word(file', 8) = P32(Len(meta.chunks))
          /\ Len(file) >= 8 => Slice(file', 0, 8) = Slice(file, 0, 8) ]_vars

\* a save after a dup, del or import, of a document whose number of chunks
\* is not the count its header was read with
C13_Witness ==
    /\ lastop.cmd = "save"
    /\ lastop.history \in {"dup", "del", "import"}
    /\ meta.entry_count # P32(Len(meta.chunks))
    /\ Word(file, 8) = P32(Len(meta.chunks))

-----------------------------------------------------------------------------
\* C14: for every string that rstr reads successfully from the file (length
\* at most 500 and inside the buffer, whatever its bytes), wstr of the text
\* rstr returned does not fail and writes exactly the bytes rstr consumed.
C14_StringCodecInverse ==
    apc = "exported" =>
        \A p \in 0..Len(afile) :
            LET r == rstr(afile, p)
            IN  r.ok => /\ Encodable(r.s)
                        /\ wstr(r.s) = Slice(afile, p, r.p)

-----------------------------------------------------------------------------
\* the bytes of d at offset pos are a symbol header, read off the bytes: a
\* length l of 1..300, l printable characters none of which is '/', a rate
\* byte, a 16-bit count, all inside the buffer
HeaderAt(d, pos) ==
    \E l \in 1..Min(300, Len(d) - pos - 7) :
        /\ pos + 4 + l + 3 <= Len(d)
        /\ Word(d, pos) = P32(l)
        /\ \A i \in 1..l : d[pos + 4 + i] \in 32..126 /\ d[pos + 4 + i] # 47
        /\ d[pos + 4 + l + 1] \in {1, 2, 3, 4, 5, 6, 8, 10, 12, 15, 20, 24, 25, 30, 60}
        /\ d[pos + 4 + l + 2] + 256 * d[pos + 4 + l + 3] <= 5000

\* C15: is_symbol_header(d, pos, fs) is true exactly when at pos there is a
\* valid length-prefixed string (length 1..300, printable ASCII, inside the
\* buffer), the three bytes after it are inside the buffer, the rate byte is
\* one of the known rates, the 16-bit count is at most 5000 and the name
\* holds no '/'.
C15_SymbolHeader ==
    (apc = "exported" /\ nedits = 0) =>
        \A pos \in 0..Len(afile) :
            is_symbol_header(afile, pos, Len(afile)) <=> HeaderAt(afile, pos)

\* the exported file holds a symbol header, and a string with a '/' that is
\* followed by a known rate and a count of at most 5000
C15_Witness ==
    /\ apc = "exported"
    /\ \E pos \in 0..Len(afile) : is_symbol_header(afile, pos, Len(afile))
    /\ \E pos \in 0..Len(afile) :
          /\ valid_str(afile, pos)
          /\ InStr(47, rstr(afile, pos).s)
          /\ rstr(afile, pos).p + 3 <= Len(afile)
          /\ afile[rstr(afile, pos).p + 1] \in KNOWN_RATES

-----------------------------------------------------------------------------
\* the offsets from pos on where the bytes of d are a symbol header
HeadersFrom(d, pos) == {q \in pos..Len(d) : HeaderAt(d, q)}

\* C16: find_next_symbol(d, pos, fs) returns the smallest offset s >= pos at
\* which there is a symbol header, and fs exactly when there is none; the
\* bound of its scan skips no offset where a header can be.
C16_NextSymbol ==
    (apc = "exported" /\ nedits = 0) =>
        \A all \in {HeadersFrom(afile, 0)} : \A pos \in 0..Len(afile) :
            \A s \in {find_next_symbol(afile, pos, Len(afile))} :
                LET hs == {q \in all : q >= pos}
                IN  /\ hs = {} <=> s = Len(afile)
                    /\ hs # {} => s \in hs /\ \A q \in hs : s <= q

\* the last offset the scan looks at holds a symbol header, and the search is
\* started before it
C16_Witness ==
    /\ apc = "exported"
    /\ HeaderAt(afile, Len(afile) - 8)
    /\ find_next_symbol(afile, 21, Len(afile)) = Len(afile) - 8
    /\ find_next_symbol(afile, Len(afile) - 7, Len(afile)) = Len(afile)

-----------------------------------------------------------------------------
\* C17: _find_chunk_boundaries returns, in increasing order, exactly the
\* offsets p with 12 <= p <= len-4 that hold MHIT, MACT or MCOL (going on 4
\* bytes after a marker misses none), and load makes exactly one chunk for
\* each, in order, of the bytes from its marker to the next marker or to the
\* end of the buffer.
C17_ChunkBoundaries ==
    (JustLoaded /\ Len(file) >= 12) =>
        \A positions \in {find_chunk_boundaries(file)}, n \in {Cardinality(MarkerSet(file))} :
            /\ Len(positions) = n
            /\ \A i \in 1..n :
                  /\ positions[i][1] = NthMarker(file, i)
                  /\ positions[i][2] = Word(file, positions[i][1])
            /\ \A i \in 1..(n - 1) : positions[i][1] < positions[i + 1][1]
            /\ Len(meta.chunks) = n
            /\ \A i \in 1..n :
                  /\ Chunk_to_bytes(meta.chunks[i]) = RawSpan(file, i)
                  /\ Slice(Chunk_to_bytes(meta.chunks[i]), 0, 4) = positions[i][2]

\* a loaded file with a marker at an offset that is not a multiple of 4,
\* right after another 'M', with a marker in its last four bytes
C17_Witness ==
    /\ JustLoaded
    /\ \E p \in MarkerSet(file) : p % 4 # 0 /\ file[p] = 77
    /\ (Len(file) - 4) \in MarkerSet(file)
    /\ Len(meta.chunks) = 2

-----------------------------------------------------------------------------
\* a build region of symbol "d", whose second sprite of two fails validation,
\* followed by the well-formed symbol "t"
HalfDecodedFile == AnimHeader(1, NameX) \o Counts(0, 0, 0, 0, 0) \o SymD \o SymB

\* C18: when sprite 1 of a symbol declaring 2 sprites fails validation, the
\* sprite decoded before it is kept and the build loop resynchronizes and
\* goes on: the record after the failed one is decoded as a build entry and
\* is not left in the file tail.
C18_CorruptRecordDegrades ==
    (apc = "exported" /\ Unedited /\ afile = HalfDecodedFile) =>
        /\ Len(ajson.build_entries) >= 2
        /\ ajson.build_entries[1].entry_type = "symbol"
        /\ Len(ajson.build_entries[1].sprites) = 1
        /\ \E k \in 2..Len(ajson.build_entries) :
              /\ ajson.build_entries[k].entry_type = "symbol"
              /\ ajson.build_entries[k].raw_hex = Hex(SymB)
        /\ Len(ajson.trail_hex) < Len(Hex(SymB))

-----------------------------------------------------------------------------
\* the offset parse_canim took as the first bare sprite: the metadata blob
\* ends there
ChosenSpriteStart == AfterRate(afile) + Len(ajson.minimal_meta_hex) \div 2

\* C19: in the minimal layout (hf1 = 0) the offset chosen as the first bare
\* sprite is the first offset after the rate byte holding a valid string
\* with a '-' that is immediately followed by a plausible width and height
\* (each above 0 and below 5000); a hyphenated string without such a pair
\* after it is never chosen.
C19_MinimalDetection ==
    (apc = "exported" /\ Unedited /\ MinimalFile(afile)) =>
        /\ detect_minimal_format(afile, ChosenSpriteStart, Len(afile))
        /\ \A q \in AfterRate(afile)..(ChosenSpriteStart - 1) :
              ~ detect_minimal_format(afile, q, Len(afile))

-----------------------------------------------------------------------------
RECURSIVE HitPhaseOffsets(_, _, _)
\* the offsets, in the raw span of a hit chunk, of the phases that lie wholly
\* in it, walking left declared phases from off by their point counts
HitPhaseOffsets(raw, off, left) ==
    IF left = 0 \/ off + 8 > Len(raw) THEN <<>>
    ELSE LET n == U32(raw, off + 4)
         IN  IF off + 8 + 8 * n > Len(raw) THEN <<>>
             ELSE <<off>> \o HitPhaseOffsets(raw, off + 8 + 8 * n, left - 1)

\* the eight floats at off are (a,b),(a,d),(c,d),(c,b)
CanonicalOrder(raw, off) ==
    /\ Word(raw, off + 8) = Word(raw, off)
    /\ Word(raw, off + 20) = Word(raw, off + 12)
    /\ Word(raw, off + 24) = Word(raw, off + 16)
    /\ Word(raw, off + 28) = Word(raw, off + 4)

\* C20: load followed by encode gives back the coordinates of every hit phase
\* in their order, byte for byte; a chunk with a 4-point phase that is not in
\* the order (minX,minY),(minX,maxY),(maxX,maxY),(maxX,minY) is kept as a raw
\* block and so never written in that order; a phase whose point count is not
\* 4 is decoded to its points as read and encoded to the bytes read.
C20_PointOrder ==
    (JustLoaded /\ Len(file) >= 12) =>
        \A i \in 1..Cardinality(MarkerSet(file)) :
            \A raw \in {RawSpan(file, i)} :
                (Word(raw, 0) = MHIT /\ Len(raw) >= 28 /\ i <= Len(meta.chunks)) =>
                    \A offs \in {HitPhaseOffsets(raw, 28, U32(raw, 24))} :
                        \A k \in 1..Len(offs) :
                            LET off == offs[k]
                                n   == U32(raw, off + 4)
                                ph  == Phase_from_bytes(raw, off)
                                c   == meta.chunks[i]
                            IN  /\ Slice(Chunk_to_bytes(c), off + 8, off + 8 + 8 * n)
                                      = Slice(raw, off + 8, off + 8 + 8 * n)
                                /\ (n = 4 /\ ~ CanonicalOrder(raw, off + 8))
                                      => /\ c.kind = "Raw"
                                         /\ Phase_to_bytes(ph) # Slice(raw, off, off + 40)
                                /\ n # 4 =>
                                      /\ Phase_to_bytes(ph) = Slice(raw, off, off + 8 + 8 * n)
                                      /\ c.kind = "MHIT" =>
                                            Phase_get_floats(c.phases[k])
                                               = [j \in 1..(2 * n) |->
                                                    Word(raw, off + 8 + 4 * (j - 1))]

\* a loaded file with a hit chunk whose 4 points are in another order, kept
\* raw, and a structured hit chunk with a 2-point phase
C20_Witness ==
    /\ JustLoaded
    /\ \E i \in 1..Len(meta.chunks) :
          /\ meta.chunks[i].kind = "Raw" /\ meta.chunks[i].magic = MHIT
          /\ Len(meta.chunks[i].raw) >= 68
          /\ U32(meta.chunks[i].raw, 32) = 4
          /\ ~ CanonicalOrder(meta.chunks[i].raw, 36)
    /\ \E i \in 1..Len(meta.chunks) :
          /\ meta.chunks[i].kind = "MHIT"
          /\ Len(meta.chunks[i].phases) = 1
          /\ meta.chunks[i].phases[1].bbox_type = 2

-----------------------------------------------------------------------------
\* what rebuild is to write for the build entries of the document and its
\* tail: every entry in list order, its raw span when it has one
BuildRegionExpected ==
    Concat([k \in 1..Len(ajson.build_entries) |->
              IF ajson.build_entries[k].raw_hex # <<>>
              THEN FromHex(ajson.build_entries[k].raw_hex)
              ELSE BuildEntryBytes(ajson.build_entries[k])])
        \o FromHex(ajson.trail_hex)

\* C21: rebuild writes the build entries in the order of the list and, for
\* every entry that has a raw span, exactly that span, whatever the fields of
\* the entry say; only an entry without a span is written from its fields.
C21_RawSpanPreferred ==
    (apc = "rebuilt" /\ ~ ajson.minimal) =>
        \A expected \in {BuildRegionExpected} :
            /\ Len(aout) >= Len(expected)
            /\ SubSeq(aout, Len(aout) - Len(expected) + 1, Len(aout)) = expected

\* a file was rebuilt from a document in which the fields of a simple symbol
\* with sprites were rewritten, and from one in which two entries with
\* different spans were exchanged
FieldsRewritten ==
    \E k \in 1..Len(ajson.build_entries) :
        /\ ajson.build_entries[k].name = <<113>>
        /\ ajson.build_entries[k].entry_type = "symbol"
        /\ ~ ajson.build_entries[k].composite
        /\ ajson.build_entries[k].num_sprites > 0
        /\ ajson.build_entries[k].raw_hex # <<>>

C21_Witness ==
    /\ apc = "rebuilt" /\ nedits = 1 /\ FieldsRewritten
    /\ Len(ajson.build_entries) >= 2
    /\ aout = afile

-----------------------------------------------------------------------------
\* the step is a run of rebuild on the document
RebuildStepTaken == apc = "exported" /\ apc' # apc

\* C22: rebuild of a document whose format tag is not "canim_v10" raises, and
\* the output file is neither created nor changed.
C22_FormatMismatch ==
    [][ (RebuildStepTaken /\ ajson.format # "canim_v10")
            => (apc' = "rebuild_failed" /\ aout' = aout) ]_vars

\* rebuild was run on a document of another format that it could otherwise
\* have written, and there is no output file
C22_Witness ==
    /\ apc = "rebuild_failed"
    /\ ajson.format = "canim_meta"
    /\ rebuild_canim_from_json([ajson EXCEPT !.format = "canim_v10"]).ok
    /\ aout = <<>>

-----------------------------------------------------------------------------
\* the raw spans of a list of build entries, one after the other
SpansOf(entries) == Concat([k \in 1..Len(entries) |-> FromHex(entries[k].raw_hex)])

\* C23: the raw spans of the build entries that parse_build_section returns
\* lie one after the other from the start of the build region, and together
\* with the tail they are the bytes of the file from there to its end; this
\* for the build region of the exported file and for parse_build_section
\* started at any offset after the rate byte.
C23_BuildCoverage ==
    (apc = "exported" /\ Unedited /\ ~ ajson.minimal) =>
        /\ \A covered \in {SpansOf(ajson.build_entries) \o FromHex(ajson.trail_hex)} :
              /\ Len(covered) <= Len(afile)
              /\ covered = Slice(afile, Len(afile) - Len(covered), Len(afile))
        /\ \A pos \in AfterRate(afile)..Len(afile) :
              \A b \in {parse_build_section(afile, pos, Len(afile))} :
                  /\ pos <= b.pos /\ b.pos <= Len(afile)
                  /\ SpansOf(b.entries) = Slice(afile, pos, b.pos)

\* an exported file whose build entries are a simple symbol, a composite
\* symbol and a build timeline block
C23_Witness ==
    /\ apc = "exported" /\ Unedited /\ ~ ajson.minimal
    /\ \E k \in 1..Len(ajson.build_entries) :
          ajson.build_entries[k].entry_type = "build_section"
    /\ \E k \in 1..Len(ajson.build_entries) :
          ajson.build_entries[k].entry_type = "symbol" /\ ajson.build_entries[k].composite
    /\ \E k \in 1..Len(ajson.build_entries) :
          ajson.build_entries[k].entry_type = "symbol" /\ ajson.build_entries[k].sprites # <<>>


-----------------------------------------------------------------------------
(* Event body coverage *)

\* The chunks' encodings, in order, followed by the tail kept by load
BodyKept(m) ==
    Concat([i \in 1..Len(m.chunks) |-> Chunk_to_bytes(m.chunks[i])])
        \o m.trailing_bytes

\* C24: for every buffer of at least 12 bytes, the encodings of the chunks
\* load returns, in order, followed by the tail it keeps, are exactly the
\* input from offset 12 on, the bytes between offset 12 and the first marker
\* included.
C24_BodyCoverage ==
    (JustLoaded /\ Len(file) >= 12) =>
        BodyKept(meta) = Slice(file, 12, Len(file))


-----------------------------------------------------------------------------
(* Declared counts of a hit chunk *)

RECURSIVE PhasesThatFit(_, _, _, _)
\* <<number of whole phases, offset after them>> among the first `left`
\* phases a hit chunk's raw span declares, walking the span from `cursor`
PhasesThatFit(raw, cursor, left, n) ==
    IF left = 0 \/ cursor + 8 > Len(raw) THEN <<n, cursor>>
    ELSE LET points == U32(raw, cursor + 4)
         IN  IF points > Len(raw) \/ cursor + 8 + points * 8 > Len(raw)
             THEN <<n, cursor>>
             ELSE PhasesThatFit(raw, cursor + 8 + points * 8, left - 1, n + 1)

\* what the raw span of a hit chunk declares and holds: the declared phase
\* count, the phases that fit, and, when a reference count follows them, the
\* declared reference count and the hashes that fit
HitCounts(raw) ==
    LET declared == U32(raw, 24)
        walk     == PhasesThatFit(raw, 28, declared, 0)
        footer   == walk[2] + 4 <= Len(raw)
    IN  [phases_declared |-> declared, phases_fit |-> walk[1],
         has_ref_count |-> footer,
         refs_declared |-> IF footer THEN U32(raw, walk[2]) ELSE 0,
         refs_fit |-> IF footer THEN (Len(raw) - walk[2] - 4) \div 4 ELSE 0]

\* the raw span declares more phases or more reference hashes than fit
ShortHit(raw) ==
    \E n \in {HitCounts(raw)} :
        \/ n.phases_fit < n.phases_declared
        \/ n.has_ref_count /\ n.refs_fit < n.refs_declared

\* C25: after load, a hit chunk whose declared phase count exceeds the
\* phases that fit, or whose declared reference count exceeds the hashes that
\* fit, is stored as a RawChunk holding its raw span; a structured MHITEntry
\* has exactly as many phases and reference hashes as its bytes declare.
C25_DeclaredCounts ==
    (JustLoaded /\ Len(file) >= 12) =>
        \A i \in 1..Len(meta.chunks) :
            \A raw \in {RawSpan(file, i)} :
                /\ (SubSeq(raw, 1, 4) = MHIT /\ Len(raw) >= 28 /\ ShortHit(raw)) =>
                       /\ meta.chunks[i].kind = "Raw"
                       /\ meta.chunks[i].raw = raw
                /\ meta.chunks[i].kind = "MHIT" =>
                       \E n \in {HitCounts(raw)} :
                           /\ Len(meta.chunks[i].phases) = n.phases_declared
                           /\ n.has_ref_count
                           /\ Len(meta.chunks[i].ref_hashes) = n.refs_declared

\* a loaded file with a hit chunk short of phases, one short of reference
\* hashes, or a structured hit chunk with a phase and a reference hash
ShortOfPhases ==
    \E i \in 1..Len(meta.chunks) :
        \E raw \in {RawSpan(file, i)} :
            /\ SubSeq(raw, 1, 4) = MHIT /\ Len(raw) >= 28
            /\ HitCounts(raw).phases_fit < HitCounts(raw).phases_declared

ShortOfRefs ==
    \E i \in 1..Len(meta.chunks) :
        \E raw \in {RawSpan(file, i)} :
            /\ SubSeq(raw, 1, 4) = MHIT /\ Len(raw) >= 28
            /\ HitCounts(raw).phases_fit = HitCounts(raw).phases_declared
            /\ HitCounts(raw).has_ref_count
            /\ HitCounts(raw).refs_fit < HitCounts(raw).refs_declared

C25_Witness ==
    /\ JustLoaded /\ Len(meta.chunks) = 2
    /\ meta.chunks[1].kind = "MHIT"
    /\ Len(meta.chunks[1].phases) = 1 /\ Len(meta.chunks[1].ref_hashes) = 1
    /\ ShortOfPhases


-----------------------------------------------------------------------------
(* Duplicate *)

\* the last command was cmd given an entry number of the document
DidTo(cmd) ==
    /\ mpc = "loaded" /\ lastop.cmd = cmd
    /\ lastop.entry >= 1 /\ lastop.entry <= Len(lastop.before.chunks)

\* C26: dup i appends exactly one chunk at the end whose encoding is byte for
\* byte the encoding of entry i, for every chunk kind and every phase point
\* count (0 included), and leaves the existing chunks and their order as they
\* were; a time, move, scale or bbox edit of one entry leaves the encoding of
\* every other entry, a copy made by dup included, as it was.
C26_DupFaithful ==
    /\ DidTo("dup") =>
          \A n \in {Len(lastop.before.chunks)} :
              /\ Len(meta.chunks) = n + 1
              /\ SubSeq(meta.chunks, 1, n) = lastop.before.chunks
              /\ Chunk_to_bytes(meta.chunks[n + 1])
                     = Chunk_to_bytes(lastop.before.chunks[lastop.entry])
    /\ (DidTo("time") \/ DidTo("move") \/ DidTo("scale") \/ DidTo("bbox")) =>
          /\ Len(meta.chunks) = Len(lastop.before.chunks)
          /\ \A j \in 1..Len(meta.chunks) :
                j # lastop.entry =>
                    Chunk_to_bytes(meta.chunks[j])
                        = Chunk_to_bytes(lastop.before.chunks[j])


-----------------------------------------------------------------------------
(* Size bookkeeping *)

RECURSIVE SumByteSize(_, _)
\* sum(c.byte_size for c in chunks), from chunk i on
SumByteSize(chunks, i) ==
    IF i > Len(chunks) THEN 0
    ELSE Chunk_byte_size(chunks[i]) + SumByteSize(chunks, i + 1)

\* the document came from load followed only by time, bbox, scale, move, dup,
\* del (and save, which leaves the document as it is): nothing was exported,
\* so nothing was imported
EditedOnly == mpc = "loaded" /\ mjson = NoJson

\* C27: in every document reachable by load followed by time, bbox, scale,
\* move, dup and del commands, every chunk's byte_size is the length of its
\* to_bytes(), so that 12 + the sum of the byte_size values + the tail length
\* is the length of the encoded file.
C27_SizeBookkeeping ==
    EditedOnly =>
        /\ \A i \in 1..Len(meta.chunks) :
              Chunk_byte_size(meta.chunks[i]) = Len(Chunk_to_bytes(meta.chunks[i]))
        /\ 12 + SumByteSize(meta.chunks, 1) + Len(meta.trailing_bytes)
               = Len(rebuild_bytes(meta))


-----------------------------------------------------------------------------
(* Entry numbers *)

EditCommands == {"time", "bbox", "scale", "move", "dup", "del"}

\* the last command was an edit command given an entry number outside 1..N
OutOfRangeEntry ==
    /\ mpc = "loaded" /\ lastop.cmd \in EditCommands
    /\ (lastop.entry < 1 \/ lastop.entry > Len(lastop.before.chunks))

\* C28: an edit command (time, bbox, scale, move, dup, del) given an entry
\* number outside 1..N, 0 in particular, raises the error interactive_mode
\* reports (no chunk is addressed) and leaves the chunk list and every chunk
\* as they were.
C28_EntryNumber ==
    OutOfRangeEntry =>
        /\ lastop.index = 0
        /\ meta.chunks = lastop.before.chunks


-----------------------------------------------------------------------------
(* Backup *)

\* C29: save copies the target to <path>.bak before overwriting it only when
\* no <path>.bak exists, and never overwrites an existing one; so after any
\* sequence of edits and saves to the same path, starting with no <path>.bak,
\* the <path>.bak that exists holds the file as it was before the first save,
\* and that is what verify compares the rebuilt bytes with.
C29_BackupOnce ==
    /\ [][ /\ bak.exists => bak' = bak
           /\ (SaveStep /\ ~ bak.exists) => bak' = [exists |-> TRUE, data |-> file]
           /\ ~ SaveStep => bak' = bak ]_vars
    /\ \A original \in EditInputs :
          (mpc = "start" /\ file = original /\ ~ bak.exists) =>
              [](/\ bak.exists => bak.data = original
                 /\ (bak.exists /\ lastop.cmd = "verify") => lastop.against = original
                 /\ ~ bak.exists => file = original)

\* the document was edited and saved, making the backup, and verify was run
C29_Witness ==
    /\ bak.exists /\ bak.data # file /\ bak # OldBak
    /\ lastop.cmd = "verify" /\ lastop.against = bak.data
    /\ nedits = MaxCmds


-----------------------------------------------------------------------------
(* Termination of the Build decode *)

\* the while loop of parse_build_section runs its body with the cursor at pos
BodyRuns(d, pos, fs) ==
    /\ pos < fs - 4
    /\ (valid_str(d, pos) \/ empty_str_at(d, pos))

\* one pass of the loop body with the cursor at pos: [entry, pos, stop]
BodyStep(d, pos, fs) ==
    IF is_symbol_header(d, pos, fs) THEN SymbolAt(d, pos, fs)
    ELSE TimelineAt(d, pos, fs)

\* the input of the decode, before and after export
DecodeInput == apc \in {"start", "exported"} /\ Unedited

\* C30: parse_build_section terminates: with the cursor at any offset of any
\* file, a pass of the loop body (simple symbol, count-prefixed composite,
\* string-delimited composite by parse_nested_symbol, opaque symbol, build
\* timeline up to the header find_next_symbol finds from pos + 1) leaves
\* the cursor strictly further or exits the loop, every string the nested
\* loop reads ends after its start, find_next_symbol never answers an offset
\* before its start, and the cursor returned for a start pos lies between pos
\* and the end of the buffer.
C30_DecodeTerminates ==
    DecodeInput =>
        /\ \A pos \in 0..Len(afile) :
              /\ BodyRuns(afile, pos, Len(afile)) =>
                    \A step \in {BodyStep(afile, pos, Len(afile))} :
                        /\ step.stop \/ step.pos > pos
                        /\ step.pos <= Len(afile)
              /\ valid_str(afile, pos) => rstr(afile, pos).p > pos
              /\ find_next_symbol(afile, pos, Len(afile)) >= pos
        /\ \A pos \in 0..Len(afile) :
              \A b \in {parse_build_section(afile, pos, Len(afile))} :
                  pos <= b.pos /\ b.pos <= Len(afile)

\* an exported file whose Build region was decoded through a count-0 symbol
\* and a timeline block
C30_Witness ==
    /\ apc = "exported" /\ Unedited /\ ~ ajson.minimal
    /\ \E k \in 1..Len(ajson.build_entries) :
          /\ ajson.build_entries[k].entry_type = "symbol"
          /\ ajson.build_entries[k].num_sprites = 0
    /\ \E k \in 1..Len(ajson.build_entries) :
          ajson.build_entries[k].entry_type = "build_section"

=============================================================================
